---- MODULE Spec2Model ----
(***************************************************************************)
(* AgentCI effect recorder: the trace writer (recorder/writer.ts), the     *)
(* recorder runtime (recorder/register.ts), the patches (recorder/patches) *)
(* and the enforcer (recorder/enforce.ts), as one state machine.           *)
(*                                                                         *)
(* Node runs every handler to completion on one thread, so an action is    *)
(* one handler.  A handler is written as a composition of operators over   *)
(* a record s holding the whole process state; s.exc is the exception in   *)
(* flight ("none" when there is none); once process.exit ran (s.phase is   *)
(* "exited") no code executes.                                             *)
(***************************************************************************)
EXTENDS Integers, Sequences, FiniteSets, TLC

\* ---------------------------------------------------------------- bounds
MaxOps == 2            \* host operations per run
MaxPending == 1        \* asynchronous file operations in flight
MaxClock == 1          \* clock steps of ClockStepMs
ClockStepMs == 1000
BufferSize == 2        \* WriterOptions.bufferSize
MaxEventsPerSecond == 3 \* WriterOptions.maxEventsPerSecond
WindowMs == 1000

Null == <<>>

\* ----------------------------------------------------------------- paths
\* A path is a sequence of tokens; "/" is the separator and a path segment
\* is one or more tokens (".agentci" "-data" is the segment .agentci-data),
\* so that String.startsWith is the prefix order on token sequences.
StartsWith(p, q) == Len(q) <= Len(p) /\ SubSeq(p, 1, Len(q)) = q

WorkspaceOrig == <<"/", "w">>
WorkspaceReal(linked) == IF linked THEN <<"/", "r">> ELSE WorkspaceOrig
Home == <<"/", "home">>

AgentciOrig == WorkspaceOrig \o <<"/", ".agentci">>
RunDirInside == AgentciOrig \o <<"/", "runs">>
RunDirOutside == <<"/", "out">>
TracePathOf(inside) == (IF inside THEN RunDirInside ELSE RunDirOutside) \o <<"/", "trace.jsonl">>

POut == WorkspaceOrig \o <<"/", "out.txt">>
PInternal == AgentciOrig \o <<"/", "x">>
PSibling == WorkspaceOrig \o <<"/", ".agentci", "-data", "/", "x">>
PEtc == <<"/", "etc", "/", "x">>
PDotEnv == WorkspaceOrig \o <<"/", ".env">>
PHome == Home \o <<"/", "notes.txt">>
HostPaths == {POut, PInternal, PSibling, PEtc, PDotEnv, PHome}

\* fs.realpathSync.native: fails (Null) on a path that does not exist,
\* otherwise replaces the symlinked workspace prefix by its target.
safeRealpath(p, exists, linked) ==
  IF ~exists THEN Null
  ELSE IF linked /\ StartsWith(p, WorkspaceOrig)
       THEN WorkspaceReal(linked) \o SubSeq(p, Len(WorkspaceOrig) + 1, Len(p))
       ELSE p

isSubpath(target, root) == target = root \/ StartsWith(target, root \o <<"/">>)

resolvePathBestEffort(inputPath, exists, linked) ==
  LET requestedAbs == inputPath
      real == safeRealpath(requestedAbs, exists, linked)
      resolvedAbs == IF real = Null THEN requestedAbs ELSE real
      inside(p) == isSubpath(p, WorkspaceReal(linked)) \/ isSubpath(p, WorkspaceOrig)
  IN [requestedAbs |-> requestedAbs,
      resolvedAbs |-> resolvedAbs,
      isWorkspaceLocal |-> inside(resolvedAbs) \/ inside(requestedAbs),
      isSymlinkEscape |-> inside(requestedAbs) /\ ~inside(resolvedAbs)]

\* ---------------------------------------------------------------- state
VARIABLES
  phase,        \* "boot" | "ready" | "crashed" (initRecorder threw) | "exited"
  appendImpl,   \* originals.appendFileSync: "node" (fs.appendFileSync, which
                \* calls the exported fs.writeFileSync) or, for an injected
                \* primitive, the patched operation it calls before appending
  faults,       \* outcomes of the next append calls (TRUE = succeeds)
  linked,       \* the workspace root is reached through a symlink
  runInside,    \* AGENTCI_RUN_DIR lies under <workspace>/.agentci
  enforce,      \* ctx.enforce
  config,       \* ctx.config (the policy lists the recorder reads)
  patched,      \* the patches are installed
  agentciOriginalCache, agentciRealCache,
  buffer, closed, flushTimer,
  maxEventsPerSecond, \* WriterOptions.maxEventsPerSecond (0 disables the limit)
  eventCountInWindow, windowStartMs, droppedInWindow, totalDropped, totalEvents,
  bypass,       \* state.bypass
  file,         \* lines of trace.jsonl
  stopped,      \* the flag of stopOnce
  exitCode,     \* code the process exited with, -1 while running
  clock,        \* Date.now()
  nextId,       \* randomUUID: a fresh id per event
  pending,      \* asynchronous file operations started and not completed
  ops,          \* host operations performed
  emitted,      \* history: events passed to writer.write, in call order
  accepted,     \* history: events pushed on the buffer, in push order
  obs,          \* history: bypass as seen at each append and as each flush
                \* leaves it, with the number of lines handed to the append
  calls,        \* history: wrapper calls made while bypass was set
  appendFailed, \* history: some append threw
  windowResets, \* history: rate-limit windows opened
  writerThrew,  \* history: a TraceWriter method threw into its caller
  lastCall,     \* history: the last patched call the host made
  cli           \* the offline tools (agentci summarize / diff / evaluate /
                \* verify), which run in a process of their own

vars == <<phase, appendImpl, faults, linked, runInside, enforce, config, patched,
          agentciOriginalCache, agentciRealCache, buffer, closed, flushTimer,
          maxEventsPerSecond, windowResets, eventCountInWindow, windowStartMs, droppedInWindow, totalDropped,
          totalEvents, bypass, file, stopped, exitCode, clock, nextId, pending,
          ops, emitted, accepted, obs, calls, appendFailed, writerThrew, lastCall, cli>>

\* the variables of the recorded process
procVars == <<phase, appendImpl, faults, linked, runInside, enforce, config, patched,
              agentciOriginalCache, agentciRealCache, buffer, closed, flushTimer,
              maxEventsPerSecond, windowResets, eventCountInWindow, windowStartMs,
              droppedInWindow, totalDropped, totalEvents, bypass, file, stopped,
              exitCode, clock, nextId, pending, ops, emitted, accepted, obs, calls,
              appendFailed, writerThrew, lastCall>>

\* ------------------------------------------------------- policy matching
\* A glob is [k |-> "under", p |-> dir] for dir/** or [k |-> "base", t |-> tok]
\* for **/tok*; a leading "~" "/" stands for the home directory.
expandTilde(p) ==
  IF StartsWith(p, <<"~", "/">>) THEN Home \o SubSeq(p, 2, Len(p)) ELSE p

\* the token that starts the last segment of a path
BaseToken(p) ==
  LET seps == {i \in 1..Len(p) : p[i] = "/"}
      last == IF seps = {} THEN 0 ELSE CHOOSE i \in seps : \A j \in seps : j <= i
  IN IF last < Len(p) THEN p[last + 1] ELSE ""

GlobDir(g) == IF g.p[1] = "~" THEN Home \o Tail(g.p) ELSE g.p

GlobMatch(g, cand) ==
  IF g.k = "under" THEN isSubpath(cand, GlobDir(g)) ELSE BaseToken(cand) = g.t

\* globs.some(...) walks the array in order: "true" at the first match,
\* "throw" when it reaches an empty glob (picomatch rejects the empty
\* string with a TypeError) before one, else "false".
RECURSIVE matchPathFrom(_, _, _)
matchPathFrom(globs, i, candidate) ==
  IF i > Len(globs) THEN "false"
  ELSE IF globs[i].k = "empty" THEN "throw"
  ELSE IF GlobMatch(globs[i], candidate) THEN "true"
  ELSE matchPathFrom(globs, i + 1, candidate)

matchPath(globs, candidate) == matchPathFrom(globs, 1, candidate)

\* An environment key is a pair <<prefix, rest>>.  A key pattern is "empty"
\* (the empty string, which picomatch rejects with a TypeError), "prefix"
\* (AWS_*) or "exact".
KeyMatch(pat, key) ==
  IF pat.k = "prefix" THEN key[1] = pat.t ELSE pat.k = "exact" /\ pat.v = key

\* patterns.some(...) walks the array in order: it returns TRUE at the
\* first match and throws when it reaches an empty pattern before one.
RECURSIVE matchKeyFrom(_, _, _)
matchKeyFrom(patterns, i, key) ==
  IF i > Len(patterns) THEN "false"
  ELSE IF patterns[i].k = "empty" THEN "throw"
  ELSE IF KeyMatch(patterns[i], key) THEN "true"
  ELSE matchKeyFrom(patterns, i + 1, key)

matchKey(patterns, key) == matchKeyFrom(patterns, 1, key)

\* A host is a sequence of labels, the registrable domain last.
Hosts == {<<"api", "good.com">>, <<"evil.com">>}
toEtldPlus1(host) == <<host[Len(host)]>>

HostMatch(pat, host) ==
  IF pat.k = "suffix"
  THEN Len(host) > Len(pat.t) /\ SubSeq(host, Len(host) - Len(pat.t) + 1, Len(host)) = pat.t
  ELSE pat.v = host

matchHost(patterns, host) == \E pat \in patterns : HostMatch(pat, host)

AwsKey == <<"AWS_", "KEY">>
HomeKey == <<"HOME", "">>
EnvKeys == {AwsKey, HomeKey}

\* defaultConfig, restricted to the names of this model
defaultConfig ==
  [block_env |-> << [k |-> "prefix", t |-> "AWS_"] >>,
   block_file_globs |-> << [k |-> "under", p |-> <<"~", "/", ".ssh">>], [k |-> "base", t |-> ".env"] >>,
   allow_writes |-> << [k |-> "under", p |-> <<"workspace">>], [k |-> "under", p |-> <<"tmp">>] >>,
   block_writes |-> << [k |-> "under", p |-> <<"/", "etc">>], [k |-> "under", p |-> <<"~">>] >>,
   fs_enforce_allowlist |-> FALSE,
   allow_hosts |-> {},
   allow_etld_plus_1 |-> {},
   net_enforce_allowlist |-> TRUE,
   allow_commands |-> {"git", "ls"},
   block_commands |-> {"rm"},
   exec_enforce_allowlist |-> TRUE,
   collapse_temp |-> TRUE,
   collapse_home |-> TRUE,
   ignore_globs |-> << [k |-> "base", t |-> ".DS_Store"], [k |-> "under", p |-> <<".git">>] >>,
   normalize_hosts |-> TRUE,
   argv_mode |-> "hash",
   redact_paths |-> <<>>,
   redact_urls |-> {},
   hash_values |-> FALSE]

\* a config file that passes validation: hosts under good.com allowed
fileConfig ==
  [defaultConfig EXCEPT !.allow_etld_plus_1 = {<<"good.com">>},
                        !.allow_hosts = {[k |-> "suffix", t |-> <<"good.com">>]}]

\* a config file that passes validation (block_env is an array of strings)
\* and lists the empty string among its patterns
emptyPatternConfig ==
  [defaultConfig EXCEPT !.block_env = << [k |-> "empty"] >>,
                        !.block_file_globs = << [k |-> "empty"] >>]

\* -------------------------------------------------- the process as a value
InjectedOps == {"spawn", "exec", "http", "fetch", "undici", "env"}
MaxFaults == 1
FaultPlans == [1..MaxFaults -> BOOLEAN]

Cur(op) ==
  [phase |-> phase, appendImpl |-> appendImpl, faults |-> faults, linked |-> linked, runInside |-> runInside,
   enforce |-> enforce, config |-> config, patched |-> patched,
   agentciOriginalCache |-> agentciOriginalCache, agentciRealCache |-> agentciRealCache,
   buffer |-> buffer, closed |-> closed, flushTimer |-> flushTimer,
   maxEventsPerSecond |-> maxEventsPerSecond, windowResets |-> windowResets,
   eventCountInWindow |-> eventCountInWindow, windowStartMs |-> windowStartMs,
   droppedInWindow |-> droppedInWindow, totalDropped |-> totalDropped,
   totalEvents |-> totalEvents, bypass |-> bypass, file |-> file,
   stopped |-> stopped, exitCode |-> exitCode, clock |-> clock, nextId |-> nextId,
   pending |-> pending, ops |-> ops, emitted |-> emitted, accepted |-> accepted,
   obs |-> obs, calls |-> calls, appendFailed |-> appendFailed,
   writerThrew |-> writerThrew, lastCall |-> lastCall,
   exc |-> "none",        \* exception in flight: "none", "rec" (raised by recorder code), "orig"
   op |-> op]             \* the host operation this handler serves

Commit(s) ==
  /\ phase' = s.phase /\ appendImpl' = s.appendImpl /\ faults' = s.faults
  /\ linked' = s.linked
  /\ runInside' = s.runInside /\ enforce' = s.enforce /\ config' = s.config
  /\ patched' = s.patched
  /\ agentciOriginalCache' = s.agentciOriginalCache
  /\ agentciRealCache' = s.agentciRealCache
  /\ buffer' = s.buffer /\ closed' = s.closed /\ flushTimer' = s.flushTimer
  /\ maxEventsPerSecond' = s.maxEventsPerSecond /\ windowResets' = s.windowResets
  /\ eventCountInWindow' = s.eventCountInWindow /\ windowStartMs' = s.windowStartMs
  /\ droppedInWindow' = s.droppedInWindow /\ totalDropped' = s.totalDropped
  /\ totalEvents' = s.totalEvents /\ bypass' = s.bypass /\ file' = s.file
  /\ stopped' = s.stopped /\ exitCode' = s.exitCode /\ clock' = s.clock
  /\ nextId' = s.nextId /\ pending' = s.pending /\ ops' = s.ops
  /\ emitted' = s.emitted /\ accepted' = s.accepted /\ obs' = s.obs
  /\ calls' = s.calls /\ appendFailed' = s.appendFailed
  /\ writerThrew' = s.writerThrew /\ lastCall' = s.lastCall
  /\ cli' = cli

\* code runs only in a live process with no exception in flight
Running(s) == s.phase \in {"boot", "ready"} /\ s.exc = "none"
Throw(s, e) == IF Running(s) THEN [s EXCEPT !.exc = e] ELSE s
\* try { ... } catch { log }
Catch(s) == IF s.exc # "none" THEN [s EXCEPT !.exc = "none"] ELSE s

TracePath(s) == TracePathOf(s.runInside)

\* ---------------------------------------------------------------- events
\* id is the fresh randomUUID.  op (history) is the host operation the
\* event was built for; ser says whether JSON.stringify accepts the event.
Event(s, type, cat, req, res, key, code, ser) ==
  [id |-> s.nextId, type |-> type, cat |-> cat, req |-> req, res |-> res,
   key |-> key, code |-> code, op |-> s.op, ser |-> ser]

buildLifecycle(s, stage, code) == Event(s, "lifecycle", stage, Null, Null, Null, code, TRUE)
buildEvent(s, cat, req, res, key, ser) == Event(s, "effect", cat, req, res, key, -1, ser)
Fresh(s) == [s EXCEPT !.nextId = @ + 1]

\* ---------------------------------------------------------- TraceWriter
\* fs.appendFileSync is implemented by a call of the exported
\* fs.writeFileSync, so the writer, the enforcer and the wrappers call one
\* another in a cycle
RECURSIVE flush(_, _)
RECURSIVE wrapSync(_, _)
RECURSIVE write(_, _)
RECURSIVE writeTail(_, _)
RECURSIVE close(_)
RECURSIVE stopOnce(_, _)
RECURSIVE processExit(_, _)
RECURSIVE enforceEffect(_, _)
RECURSIVE recordFs(_, _, _, _)
RECURSIVE recordFsEvent(_, _, _, _)
RECURSIVE recordAfter(_, _)
RECURSIVE origFs(_, _)
RECURSIVE recordExec(_, _, _)
RECURSIVE wrapExec(_, _)
RECURSIVE recordNet(_, _, _)
RECURSIVE wrapHttp(_, _)
RECURSIVE wrapFetch(_, _)
RECURSIVE envTrap(_, _)
RECURSIVE injectedCall(_)
RECURSIVE appendFileSync(_, _)

Threw(s) == IF s.exc # "none" THEN [s EXCEPT !.writerThrew = TRUE] ELSE s

writeTailLate(s, event) ==
  IF ~event.ser THEN s
  ELSE LET s1 == [s EXCEPT !.buffer = Append(@, event), !.accepted = Append(@, event)]
       IN IF Len(s1.buffer) > BufferSize THEN Catch(flush(s1, "buffer")) ELSE s1

writeTail(s, event) ==
  IF ~event.ser THEN s       \* JSON.stringify throws inside the try: logged
  ELSE LET s1 == [s EXCEPT !.buffer = Append(@, event), !.accepted = Append(@, event)]
       IN IF Len(s1.buffer) >= BufferSize THEN Catch(flush(s1, "buffer")) ELSE s1

writeWhenClosed(s, event) ==
  IF ~Running(s) THEN s
  ELSE Threw(writeTail([s EXCEPT !.emitted = Append(@, event), !.totalEvents = @ + 1], event))

writeUnlimited(s, event) ==
  IF ~Running(s) THEN s
  ELSE LET s0 == [s EXCEPT !.emitted = Append(@, event)]
       IN IF s0.closed THEN s0
          ELSE Threw(writeTail([s0 EXCEPT !.totalEvents = @ + 1], event))

write(s, event) ==
  IF ~Running(s) THEN s
  ELSE LET s0 == [s EXCEPT !.emitted = Append(@, event)]
       IN IF s0.closed THEN s0
          ELSE LET s1 == [s0 EXCEPT !.totalEvents = @ + 1]
                   limited == s.maxEventsPerSecond > 0
                   s2 == IF limited /\ s1.clock - s1.windowStartMs >= WindowMs
                         THEN [s1 EXCEPT !.windowStartMs = s1.clock,
                                         !.eventCountInWindow = 0,
                                         !.droppedInWindow = 0,
                                         !.windowResets = @ + 1]
                         ELSE s1
               IN IF limited /\ s2.eventCountInWindow >= s.maxEventsPerSecond
                  THEN [s2 EXCEPT !.droppedInWindow = @ + 1, !.totalDropped = @ + 1]
                  ELSE Threw(writeTail(IF limited
                                       THEN [s2 EXCEPT !.eventCountInWindow = @ + 1]
                                       ELSE s2, event))

closeNoFlush(s) ==
  IF ~Running(s) \/ s.closed THEN s
  ELSE [s EXCEPT !.closed = TRUE, !.flushTimer = FALSE]

close(s) ==
  IF ~Running(s) \/ s.closed THEN s
  ELSE Threw(flush([s EXCEPT !.closed = TRUE, !.flushTimer = FALSE], "close"))

\* ------------------------------------------------------ recorder runtime
stopEveryTime(s, code) ==
  IF ~Running(s) THEN s
  ELSE LET s1 == [s EXCEPT !.stopped = TRUE]
       IN close(write(Fresh(s1), buildLifecycle(s1, "stop", code)))

stopOnce(s, code) ==
  IF ~Running(s) \/ s.stopped THEN s
  ELSE LET s1 == [s EXCEPT !.stopped = TRUE]
       IN close(write(Fresh(s1), buildLifecycle(s1, "stop", code)))

\* process.exit(code): the 'exit' listeners run, then the process is gone
processExit(s, code) ==
  IF ~Running(s) THEN s
  ELSE LET s1 == IF s.phase = "ready" THEN stopOnce(s, code) ELSE s
       IN [s1 EXCEPT !.phase = "exited", !.exitCode = code, !.exc = "none"]

\* --------------------------------------------------------------- enforcer
enforcerWritePath(s, ev) ==
  LET writePath == ev.res
      root == WorkspaceOrig
      candidate == IF StartsWith(writePath, root \o <<"/">>)
                   THEN SubSeq(writePath, Len(root) + 2, Len(writePath))
                   ELSE writePath
      blocked == matchPath(s.config.block_writes, expandTilde(writePath))
      allowed == matchPath(s.config.allow_writes, candidate)
  IN IF ~isSubpath(expandTilde(writePath), root) THEN "block"
     ELSE IF blocked = "throw" THEN "throw"
     ELSE IF blocked = "true" THEN "block"
     ELSE IF ~s.config.fs_enforce_allowlist THEN "pass"
     ELSE IF allowed = "throw" THEN "throw"
     ELSE IF allowed = "false" THEN "block" ELSE "pass"

\* the text of a value: its tokens one after the other
RECURSIVE joinFrom(_, _, _)
joinFrom(tokens, i, sep) ==
  IF i > Len(tokens) THEN ""
  ELSE (IF i > 1 THEN sep ELSE "") \o tokens[i] \o joinFrom(tokens, i + 1, sep)

\* crypto.createHash('sha256').update(text).digest('hex'), as a function
\* without collisions: the digest names its message
sha256(text) == "sha256(" \o text \o ")"

\* normalize.ts: hashValue
hashValue(value) == "<hash:" \o sha256(joinFrom(value, 1, "")) \o ">"

\* normalize.ts: applyRedaction
applyRedaction(value, label, hashValues) ==
  IF hashValues THEN <<hashValue(value)>> ELSE <<"<redacted:" \o label \o ">">>

\* String.toLowerCase on a label
toLowerCase(label) == IF label = "EVIL.COM" THEN "evil.com" ELSE label
\* a host as written may end in a ":port" token or in a "." token
Ports == {":80", ":443"}

\* value.endsWith('.') ? value.slice(0, -1) : value
stripDot(value) ==
  IF Len(value) > 1 /\ value[Len(value)] = "." THEN SubSeq(value, 1, Len(value) - 1) ELSE value

\* /^[^:]+:\d+$/.test(value) ? value.split(':')[0] : value
stripPort(value) ==
  IF Len(value) > 1 /\ value[Len(value)] \in Ports THEN SubSeq(value, 1, Len(value) - 1) ELSE value

\* if (redact_urls.length && matchHost(redact_urls, value)) return applyRedaction(...)
redactHost(value, cfg) ==
  IF cfg.redact_urls # {} /\ matchHost(cfg.redact_urls, value)
  THEN applyRedaction(value, "host", cfg.hash_values)
  ELSE value

\* normalize.ts: normalizeHost (the hosts of this model are not bracketed)
normalizeHost(host, cfg) ==
  IF ~cfg.normalize_hosts THEN host
  ELSE redactHost(stripPort(stripDot([i \in 1..Len(host) |-> toLowerCase(host[i])])), cfg)

enforcerHost(s, ev) ==
  LET host == normalizeHost(ev.key, s.config)
      hostAllowed == matchHost(s.config.allow_hosts, host)
      etldAllowed == toEtldPlus1(host) \in s.config.allow_etld_plus_1
      hasAllowlist == s.config.allow_hosts # {} \/ s.config.allow_etld_plus_1 # {}
  IN IF ~hostAllowed /\ ~etldAllowed /\ (s.config.net_enforce_allowlist \/ hasAllowlist)
     THEN "block" ELSE "pass"

enforcerCommand(s, ev) ==
  IF ev.key[1] \in s.config.block_commands THEN "block"
  ELSE IF s.config.exec_enforce_allowlist /\ ev.key[1] \notin s.config.allow_commands
       THEN "block" ELSE "pass"

enforcerSensitive(s, ev) ==
  IF ev.req = <<"env_var">>
  THEN LET m == matchKey(s.config.block_env, ev.key)
       IN IF m = "throw" THEN "throw" ELSE IF m = "true" THEN "block" ELSE "pass"
  ELSE LET m == matchPath(s.config.block_file_globs, expandTilde(ev.key))
       IN IF m = "throw" THEN "throw" ELSE IF m = "true" THEN "block" ELSE "pass"

\* "block", "pass" or "throw"
shouldBlock(s, ev) ==
  CASE ev.cat = "fs_write" -> enforcerWritePath(s, ev)
    [] ev.cat = "net_outbound" -> enforcerHost(s, ev)
    [] ev.cat = "exec" -> enforcerCommand(s, ev)
    [] ev.cat = "sensitive_access" -> enforcerSensitive(s, ev)
    [] OTHER -> "pass"

enforceEffect(s, ev) ==
  IF ~Running(s) \/ ~s.enforce THEN s
  ELSE LET reason == shouldBlock(s, ev)
       IN IF reason = "throw" THEN Throw(s, "rec")
          ELSE IF reason = "pass" THEN s
          ELSE processExit(Threw(flush(s, "enforcer")), 1)

\* ---------------------------------------------------------------- patches
\* history: a wrapper entered while bypass was set; wrote says whether the
\* call handed an event to the writer
NoteCall(before, after, kind) ==
  IF before.bypass
  THEN [after EXCEPT !.calls = @ \cup {[kind |-> kind,
                                       wrote |-> Len(after.emitted) > Len(before.emitted)]}]
  ELSE after

\* a path argument: a string, or a file descriptor (no path)
pathFromArg(arg) == IF arg.t = "fd" THEN Null ELSE arg.p

\* <workspace>/.agentci exists when the patches are installed iff the
\* constructor of the writer created it on the way to the run directory
initAgentciPaths(s) ==
  [s EXCEPT !.agentciOriginalCache = AgentciOrig,
            !.agentciRealCache = safeRealpath(AgentciOrig, s.runInside, s.linked)]

shouldSkip(s, resolvedPath) ==
  \/ s.agentciOriginalCache # Null /\ StartsWith(resolvedPath, s.agentciOriginalCache)
  \/ s.agentciRealCache # Null /\ StartsWith(resolvedPath, s.agentciRealCache)

recordSensitiveRead(s, resolvedAbs) ==
  LET expanded == expandTilde(resolvedAbs)
      m == matchPath(s.config.block_file_globs, expanded)
  IN IF ~Running(s) THEN s
     ELSE IF m = "throw" THEN Throw(s, "rec")
     ELSE IF m = "false" THEN s
     ELSE LET ev == buildEvent(s, "sensitive_access", <<"file_read">>, Null, expanded, TRUE)
          IN enforceEffect(write(Fresh(s), ev), ev)

\* exists: whether inputPath exists when the event is recorded
recordFsEvent(s, category, inputPath, resolvedAbs) ==
  LET ev == buildEvent(s, category, inputPath, resolvedAbs, Null, TRUE)
  IN enforceEffect(write(Fresh(s), ev), ev)

recordFsSensitive(s, category, resolvedAbs) ==
  Catch(IF category = "fs_read" THEN recordSensitiveRead(s, resolvedAbs) ELSE s)

recordFs(s, category, inputPath, exists) ==
  IF ~Running(s) THEN s
  ELSE LET resolved == resolvePathBestEffort(inputPath, exists, s.linked)
       IN IF shouldSkip(s, resolved.resolvedAbs) THEN s
          ELSE recordFsSensitive(recordFsEvent(s, category, inputPath, resolved.resolvedAbs),
                                 category, resolved.resolvedAbs)

\* The original file operation.  fs.appendFileSync is implemented by a
\* call of the exported fs.writeFileSync, which is the wrapper once the
\* patches are installed.  data is what a write to the trace file appends.
origFs(s, c) ==
  IF ~Running(s) THEN s
  ELSE IF c.fn = "appendFileSync" /\ s.patched
  THEN wrapSync(s, [c EXCEPT !.fn = "writeFileSync"])
  ELSE IF ~c.ok THEN Throw(s, "orig")
  ELSE IF c.arg.t # "fd" /\ c.arg.p = TracePath(s)
       THEN [s EXCEPT !.file = @ \o c.data]
       ELSE s

CategoryOf(fn) ==
  CASE fn \in {"writeFileSync", "appendFileSync", "writeFile", "appendFile"} -> "fs_write"
    [] fn \in {"readFileSync", "readFile"} -> "fs_read"
    [] OTHER -> "fs_delete"

recordWhetherOrNotThrown(s, c) ==
  IF pathFromArg(c.arg) = Null THEN s
  ELSE [recordFs(Catch(s), CategoryOf(c.fn), pathFromArg(c.arg), TRUE) EXCEPT !.exc = s.exc]

\* the wrapper after the original returned or threw
recordAfter(s, c) ==
  IF s.exc # "none" \/ pathFromArg(c.arg) = Null THEN s
  ELSE recordFs(s, CategoryOf(c.fn), pathFromArg(c.arg), CategoryOf(c.fn) # "fs_delete")

wrapSync(s, c) ==
  IF ~Running(s) THEN s
  ELSE IF s.bypass THEN NoteCall(s, origFs(s, c), "fs")
  ELSE recordAfter(origFs(s, c), c)

recordRenameWriteFirst(s, old, new) ==
  recordFs(recordFs(s, "fs_write", new, TRUE), "fs_delete", old, FALSE)

\* a rename is a delete of the source and a write of the destination
recordRename(s, old, new) ==
  recordFs(recordFs(s, "fs_delete", old, FALSE), "fs_write", new, TRUE)

\* fs.renameSync
renameSync(s, c) ==
  IF ~Running(s) THEN s
  ELSE IF s.bypass THEN NoteCall(s, IF c.ok THEN s ELSE Throw(s, "orig"), "fs")
  ELSE IF ~c.ok THEN Throw(s, "orig")
  ELSE recordRename(s, c.old, c.new)

\* wrapAsync, fs.rename, wrapPromise and fs.promises.rename, at the call:
\* the original is started (or throws at once) and, unless bypass is set,
\* the completion is the wrapper's to observe.  form "plain": the original
\* returned a non-thenable without taking a callback.
startAsync(s, c) ==
  IF ~Running(s) THEN s
  ELSE IF ~c.ok THEN NoteCall(s, Throw(s, "orig"), "fs")
  ELSE IF s.bypass \/ c.form # "plain"
       THEN NoteCall(s, [s EXCEPT !.pending = @ \cup {[op |-> s.op, fn |-> c.fn,
                             old |-> c.old, new |-> c.new, wrapped |-> ~s.bypass]}], "fs")
  ELSE IF c.fn = "rename"
       THEN recordRename(s, c.old, c.new)
       ELSE recordFs(s, CategoryOf(c.fn), c.new, CategoryOf(c.fn) # "fs_delete")

\* the wrapped callback, or the continuation of the returned promise
completeAsync(s, p, ok) ==
  LET s1 == [s EXCEPT !.pending = @ \ {p}]
  IN IF ~Running(s) THEN s
     ELSE IF ~ok THEN Throw(s1, "orig")
     ELSE IF ~p.wrapped THEN s1
     ELSE IF p.fn = "rename"
          THEN recordRename(s1, p.old, p.new)
          ELSE recordFs(s1, CategoryOf(p.fn), p.new, CategoryOf(p.fn) # "fs_delete")

\* path.basename of a command
basename(command) == BaseToken(command)

normalizeCommand(command, args) == <<basename(command)>> \o args

recordExec(s, command, args) ==
  IF ~Running(s) THEN s
  ELSE LET argv == normalizeCommand(command, args)
           ev == buildEvent(s, "exec", command, argv, <<argv[1]>>, TRUE)
       IN Catch(write(Fresh(s), ev))

\* an original that either returns or throws
origCall(s, ok) == IF ~Running(s) THEN s ELSE IF ok THEN s ELSE Throw(s, "orig")

\* childProcess.spawn / exec / execFile / fork.  conv: String(command) and
\* the String(arg) of every argument return (they throw on a value that
\* cannot be converted to a primitive)
wrapExec(s, c) ==
  IF ~Running(s) THEN s
  ELSE IF s.bypass THEN NoteCall(s, origCall(s, c.ok), c.fn)
  ELSE IF c.fn = "spawn"
       THEN origCall(Catch(IF c.conv THEN recordExec(s, c.command, <<>>)
                                     ELSE Throw(s, "rec")), c.ok)
       ELSE origCall(IF c.conv THEN recordExec(s, c.command, <<>>)
                               ELSE Throw(s, "rec"), c.ok)

\* recordNet of http.ts, fetch.ts and undici.ts; ser: the method value is
\* one JSON.stringify accepts
recordNet(s, host, ser) ==
  IF ~Running(s) THEN s
  ELSE LET ev == buildEvent(s, "net_outbound", host, toEtldPlus1(host), host, ser)
       IN Catch(enforceEffect(write(Fresh(s), ev), ev))

\* http.request / https.request.  options is a URL string (k = "url"), a
\* string that is no URL ("badurl") or an options object ("object") whose
\* host and port convert (conv) or throw in String(host) / Number(port).
wrapHttp(s, c) ==
  IF ~Running(s) THEN s
  ELSE IF s.bypass THEN NoteCall(s, origCall(s, c.ok), "http")
  ELSE LET s1 == CASE c.k = "badurl" -> s
                   [] c.k = "url" -> recordNet(s, c.host, TRUE)
                   [] OTHER -> IF c.conv THEN recordNet(s, c.host, TRUE)
                               ELSE Throw(s, "rec")
       IN origCall(s1, c.ok)

\* globalThis.fetch, undici.request, undici.fetch: the extraction is inside
\* a try, the method is copied into the event as given
wrapFetch(s, c) ==
  IF ~Running(s) THEN s
  ELSE IF s.bypass THEN NoteCall(s, origCall(s, c.ok), c.fn)
  ELSE origCall(IF c.k = "badurl" THEN s ELSE recordNet(s, c.host, c.ser), c.ok)

\* the get / has / getOwnPropertyDescriptor traps of the process.env proxy
envTrap(s, key) ==
  IF ~Running(s) THEN s
  ELSE LET m == matchKey(s.config.block_env, key)
           ev == buildEvent(s, "sensitive_access", <<"env_var">>, Null, key, TRUE)
       IN NoteCall(s, IF m = "throw" THEN Throw(s, "rec")
                      ELSE IF m = "false" THEN s
                      ELSE enforceEffect(write(Fresh(s), ev), ev), "env")

\* the proxy is installed only when block_env is not empty
envInstalled(s) == s.patched /\ Len(s.config.block_env) > 0

\* ------------------------------------------------ the append primitive
BenignExec(fn) == [fn |-> fn, command |-> <<"ls">>, conv |-> TRUE, ok |-> TRUE]
BenignNet(fn) == [fn |-> fn, k |-> "url", host |-> <<"evil.com">>, conv |-> TRUE, ser |-> TRUE, ok |-> TRUE]

injectedCall(s) ==
  CASE s.appendImpl \in {"spawn", "exec"} -> wrapExec(s, BenignExec(s.appendImpl))
    [] s.appendImpl = "http" -> wrapHttp(s, BenignNet("http"))
    [] s.appendImpl \in {"fetch", "undici"} -> wrapFetch(s, BenignNet(s.appendImpl))
    [] OTHER -> IF envInstalled(s) THEN envTrap(s, AwsKey) ELSE s

\* originals.appendFileSync(tracePath, data, 'utf8')
appendFileSync(s, data) ==
  LET ok == IF Len(s.faults) > 0 THEN Head(s.faults) ELSE TRUE
      s1 == [s EXCEPT !.faults = IF Len(@) > 0 THEN Tail(@) ELSE @,
                      !.obs = @ \cup {[at |-> "append", bypass |-> s.bypass, n |-> Len(data)]}]
      tracePath == [t |-> "string", p |-> TracePath(s)]
  IN IF s.appendImpl = "node"
     THEN origFs(s1, [fn |-> "appendFileSync", arg |-> tracePath, ok |-> ok, data |-> data])
     ELSE origFs(injectedCall(s1), [fn |-> "writeFileSync", arg |-> tracePath, ok |-> ok, data |-> data])

flushRethrow(s) == s

\* catch { log } of flush
flushCatch(s) ==
  IF s.exc # "none" THEN [Catch(s) EXCEPT !.appendFailed = TRUE] ELSE s

flushLeaveBypass(s) == s

\* finally { state.bypass = false } of flush
flushFinally(s) == [s EXCEPT !.bypass = FALSE]

\* history: bypass as flush leaves it; n lines were handed to the append
flushReturn(s, trigger, n) ==
  [s EXCEPT !.obs = @ \cup {[at |-> trigger, bypass |-> s.bypass, n |-> n]}]

flushKeepBuffer(s) == [s EXCEPT !.bypass = TRUE]

\* const data = buffer.join(''); buffer = []; state.bypass = true
flushBegin(s) == [s EXCEPT !.buffer = <<>>, !.bypass = TRUE]

flush(s, trigger) ==
  IF ~Running(s) \/ Len(s.buffer) = 0 THEN s
  ELSE flushReturn(flushFinally(flushCatch(appendFileSync(flushBegin(s), s.buffer))),
                   trigger, Len(s.buffer))

\* ---------------------------------------------------------------- actions
NoCall == [op |-> 0, kind |-> "none", rename |-> Null, orig |-> "ok", host |-> "ok"]

\* no offline tool has run
CliIdle == [stage |-> "idle"]

\* limits: the values of the option maxEventsPerSecond
InitProc(impls, limits) ==
  /\ phase = "boot"
  /\ maxEventsPerSecond \in limits
  /\ windowResets = 0
  /\ appendImpl \in impls
  /\ faults \in FaultPlans
  /\ linked \in BOOLEAN
  /\ runInside \in (IF linked THEN BOOLEAN ELSE {TRUE})
  /\ enforce \in (IF impls = {"node"} THEN BOOLEAN ELSE {FALSE})
  /\ config = defaultConfig
  /\ patched = FALSE
  /\ agentciOriginalCache = Null /\ agentciRealCache = Null
  /\ buffer = <<>> /\ closed = FALSE /\ flushTimer = FALSE
  /\ eventCountInWindow = 0 /\ windowStartMs = 0 /\ droppedInWindow = 0
  /\ totalDropped = 0 /\ totalEvents = 0
  /\ bypass = FALSE
  /\ file = <<>>
  /\ stopped = FALSE
  /\ exitCode = -1
  /\ clock = WindowMs
  /\ nextId = 1
  /\ pending = {}
  /\ ops = 0
  /\ emitted = <<>> /\ accepted = <<>>
  /\ obs = {} /\ calls = {}
  /\ appendFailed = FALSE /\ writerThrew = FALSE
  /\ lastCall = NoCall

InitWith(impls, limits) == InitProc(impls, limits) /\ cli = CliIdle

\* register.ts passes no maxEventsPerSecond: the default applies
InitEnv(impls) == InitWith(impls, {MaxEventsPerSecond})

Init == InitEnv({"node"})
InitInjected == InitEnv(InjectedOps)

\* loadConfig: the file is absent, valid, rejected by the schema, valid with
\* an empty pattern, or not parseable as YAML (yaml.parse throws)
ConfigFiles == {"absent", "valid", "invalid", "emptypattern", "malformed"}
loadConfig(s, cfgFile) ==
  CASE cfgFile = "malformed" -> Throw(s, "rec")
    [] cfgFile = "valid" -> [s EXCEPT !.config = fileConfig]
    [] cfgFile = "emptypattern" -> [s EXCEPT !.config = emptyPatternConfig]
    [] OTHER -> [s EXCEPT !.config = defaultConfig]

newTraceWriterNoTimer(s, ioOk) ==
  IF ~Running(s) THEN s
  ELSE Threw(Catch(IF ioOk THEN s ELSE Throw(s, "rec")))

\* new TraceWriter(...): mkdirSync and writeFileSync inside a try, then the
\* flush timer; ioOk says whether the two calls succeed
newTraceWriter(s, ioOk) ==
  IF ~Running(s) THEN s
  ELSE [Threw(Catch(IF ioOk THEN s ELSE Throw(s, "rec"))) EXCEPT !.flushTimer = TRUE]

\* the lifecycle start event
writeStart(s) ==
  IF ~Running(s) THEN s ELSE write(Fresh(s), buildLifecycle(s, "start", -1))

\* the patch functions, inside the try of initRecorder
applyPatches(s, patchOk) ==
  IF ~Running(s) THEN s
  ELSE IF patchOk THEN [initAgentciPaths(s) EXCEPT !.patched = TRUE]
  ELSE Catch(write(Fresh(s), buildLifecycle(s, "error", -1)))

\* the module is loaded, or its load threw and the host never starts
loaded(s) ==
  IF s.exc # "none"
  THEN [s EXCEPT !.phase = "crashed", !.exitCode = 1, !.exc = "none"]
  ELSE [s EXCEPT !.phase = "ready"]

initRecorder(s, cfgFile, ioOk, patchOk) ==
  loaded(applyPatches(writeStart(newTraceWriter(loadConfig(s, cfgFile), ioOk)), patchOk))

InitRecorder ==
  /\ phase = "boot"
  /\ \E cfgFile \in ConfigFiles, ioOk \in BOOLEAN, patchOk \in BOOLEAN :
       \* the lists of the valid file differ from the defaults in what the
       \* enforcer alone reads
       /\ cfgFile = "valid" => enforce
       /\ Commit(initRecorder(Cur(0), cfgFile, ioOk, patchOk))

\* the host's view of a call that returned or threw; rename is the pair of
\* paths of a rename, Null for any other call
Finish(s, kind, rename, origOk) ==
  [s EXCEPT !.ops = IF s.op > @ THEN s.op ELSE @,
            !.exc = "none",
            !.lastCall = [op |-> s.op, kind |-> kind, rename |-> rename,
                          orig |-> IF origOk THEN "ok" ELSE "err",
                          host |-> IF s.phase = "exited" THEN "exit"
                                   ELSE IF s.exc = "none" THEN "ok" ELSE s.exc]]

CanCall == phase = "ready" /\ ops < MaxOps
Str(p) == [t |-> "string", p |-> p]
Fd == [t |-> "fd", p |-> Null]

\* fs.writeFileSync, appendFileSync, readFileSync, unlinkSync (mkdirSync is
\* wrapped as writeFileSync is, rmSync as unlinkSync is)
FsSyncCalls ==
  [fn : {"writeFileSync"}, arg : {Str(POut), Str(PSibling), Str(PEtc), Str(PHome), Fd}]
    \cup [fn : {"appendFileSync"}, arg : {Str(POut)}]
    \cup [fn : {"readFileSync"}, arg : {Str(PDotEnv)}]
    \cup [fn : {"unlinkSync"}, arg : {Str(POut)}]

FsSync ==
  /\ CanCall /\ patched
  /\ \E call \in FsSyncCalls, ok \in BOOLEAN :
       Commit(Finish(wrapSync(Cur(ops + 1), [fn |-> call.fn, arg |-> call.arg, ok |-> ok, data |-> <<>>]),
                     "fs", Null, ok))

Renames == {[old |-> POut, new |-> PEtc], [old |-> POut, new |-> PInternal],
            [old |-> POut, new |-> PSibling]}

RenameSync ==
  /\ CanCall /\ patched
  /\ \E r \in Renames, ok \in BOOLEAN :
       Commit(Finish(renameSync(Cur(ops + 1), [old |-> r.old, new |-> r.new, ok |-> ok]),
                     "fs", r, ok))

RenameOf(c) == IF c.fn = "rename" THEN [old |-> c.old, new |-> c.new] ELSE Null

\* the call returned: the operation is in flight, or it completed or threw
asyncReturn(s, c) ==
  IF s.exc = "none" /\ s.phase = "ready" /\ Cardinality(s.pending) > Cardinality(pending)
  THEN [s EXCEPT !.ops = s.op]
  ELSE Finish(s, "fs", RenameOf(c), c.ok)

AsyncCalls ==
  [fn : {"writeFile"}, old : {POut}, new : {POut}]
    \cup [fn : {"rename"}, old : {POut}, new : {PInternal}]

\* fs.writeFile, fs.rename with a callback, and the fs.promises functions of
\* the same names: the call
FsAsyncStart ==
  /\ CanCall /\ patched /\ Cardinality(pending) < MaxPending
  /\ \E call \in AsyncCalls, form \in {"callback", "promise", "plain"}, ok \in BOOLEAN :
       LET c == [fn |-> call.fn, form |-> form, old |-> call.old, new |-> call.new, ok |-> ok]
       IN Commit(asyncReturn(startAsync(Cur(ops + 1), c), c))

\* the completion of an asynchronous file operation
FsAsyncDone ==
  /\ phase = "ready"
  /\ \E p \in pending, ok \in BOOLEAN :
       Commit(Finish(completeAsync(Cur(p.op), p, ok), "fs", RenameOf(p), ok))

Commands == {<<"ls">>, <<"/", "bin", "/", "rm">>}
ExecFns == {"spawn", "exec", "execFile", "fork"}
ExecCalls ==
  [fn : ExecFns, command : Commands, conv : {TRUE}]
    \cup [fn : ExecFns, command : {<<"ls">>}, conv : {FALSE}]

ChildProcess ==
  /\ CanCall /\ patched
  /\ \E call \in ExecCalls, ok \in BOOLEAN :
       \* the original rejects what String() rejects
       /\ call.conv \/ ~ok
       /\ Commit(Finish(wrapExec(Cur(ops + 1), [fn |-> call.fn, command |-> call.command,
                                                conv |-> call.conv, ok |-> ok]),
                        "exec", Null, ok))

HttpCalls ==
  [k : {"url"}, host : Hosts, conv : {TRUE}]
    \cup [k : {"badurl"}, host : {<<"evil.com">>}, conv : {TRUE}]
    \cup [k : {"object"}, host : {<<"EVIL.COM">>}, conv : BOOLEAN]

HttpRequest ==
  /\ CanCall /\ patched
  /\ \E call \in HttpCalls, ok \in BOOLEAN :
       \* the original rejects what String() and Number() reject
       /\ call.conv \/ ~ok
       /\ Commit(Finish(wrapHttp(Cur(ops + 1), [k |-> call.k, host |-> call.host,
                                                conv |-> call.conv, ok |-> ok]),
                        "net", Null, ok))

FetchCalls ==
  [fn : {"fetch", "undici"}, k : {"url"}, host : {<<"evil.com">>}, ser : BOOLEAN]
    \cup [fn : {"fetch", "undici"}, k : {"badurl"}, host : {<<"evil.com">>}, ser : {TRUE}]

Fetch ==
  /\ CanCall /\ patched
  /\ \E call \in FetchCalls, ok \in BOOLEAN :
       Commit(Finish(wrapFetch(Cur(ops + 1), [fn |-> call.fn, k |-> call.k, host |-> call.host,
                                              ser |-> call.ser, ok |-> ok]),
                     "net", Null, ok))

\* a read of process.env through the proxy
EnvRead ==
  /\ CanCall /\ envInstalled(Cur(0))
  /\ \E key \in EnvKeys :
       Commit(Finish(envTrap(Cur(ops + 1), key), "env", Null, TRUE))

\* a host operation when the patches were not installed
Unpatched ==
  /\ CanCall /\ ~patched
  /\ \E ok \in BOOLEAN :
       Commit(Finish(origCall(Cur(ops + 1), ok), "plain", Null, ok))

\* the setInterval callback of the writer
TimerFlush ==
  /\ phase = "ready" /\ flushTimer
  /\ Commit(Threw(flush(Cur(0), "timer")))

\* the clock advances between host operations
Tick ==
  /\ CanCall /\ clock < WindowMs + MaxClock * ClockStepMs
  /\ clock' = clock + ClockStepMs
  /\ UNCHANGED <<phase, appendImpl, faults, linked, runInside, enforce, config, patched,
                 agentciOriginalCache, agentciRealCache, buffer, closed, flushTimer,
                 maxEventsPerSecond, windowResets, eventCountInWindow, windowStartMs, droppedInWindow, totalDropped,
                 totalEvents, bypass, file, stopped, exitCode, nextId, pending,
                 ops, emitted, accepted, obs, calls, appendFailed, writerThrew, lastCall, cli>>

\* process.exit(code), or the event loop running empty (code 0)
HostExit ==
  /\ CanCall
  /\ \E code \in {0, 1} : Commit(processExit(Cur(0), code))

\* the 'uncaughtException' and 'unhandledRejection' listeners
onError(s) == stopOnce(write(Fresh(s), buildLifecycle(s, "error", -1)), 1)

UncaughtException ==
  /\ CanCall
  /\ Commit([onError(Cur(0)) EXCEPT !.ops = ops + 1])

UnhandledRejection ==
  /\ CanCall
  /\ Commit([onError(Cur(0)) EXCEPT !.ops = ops + 1])

Next ==
  \/ InitRecorder
  \/ FsSync
  \/ RenameSync
  \/ FsAsyncStart
  \/ FsAsyncDone
  \/ ChildProcess
  \/ HttpRequest
  \/ Fetch
  \/ EnvRead
  \/ Unpatched
  \/ TimerFlush
  \/ Tick
  \/ HostExit
  \/ UncaughtException
  \/ UnhandledRejection

Spec == Init /\ [][Next]_vars

\* a harness that gives the writer an append primitive of its own, which
\* calls one patched operation before it appends
NextInjected ==
  \/ InitRecorder
  \/ FsSync
  \/ ChildProcess
  \/ TimerFlush
  \/ HostExit

SpecInjected == InitInjected /\ [][NextInjected]_vars

\* ------------------------------------------------ the writer on its own
\* A TraceWriter constructed and driven directly, with the originals of an
\* unpatched fs, as the writer tests do.
MaxWrites == 4
Limits == {0, 1, MaxEventsPerSecond}

InitWriter == InitWith({"node"}, Limits) /\ ~linked /\ ~enforce

WriterNew ==
  /\ phase = "boot"
  /\ \E ioOk \in BOOLEAN : Commit(loaded(newTraceWriter(Cur(0), ioOk)))

\* writer.write(event); ser: JSON.stringify accepts the event
WriterWrite ==
  /\ phase = "ready" /\ Len(emitted) < MaxWrites
  /\ \E ser \in BOOLEAN :
       LET s == Cur(Len(emitted) + 1)
       IN Commit(write(Fresh(s), buildEvent(s, "fs_write", POut, POut, Null, ser)))

\* writer.flush()
WriterFlush ==
  /\ phase = "ready"
  /\ Commit(Threw(flush(Cur(0), "manual")))

\* writer.close()
WriterClose ==
  /\ phase = "ready"
  /\ Commit(close(Cur(0)))

NextWriter ==
  \/ WriterNew
  \/ WriterWrite
  \/ WriterFlush
  \/ WriterClose
  \/ TimerFlush
  \/ Tick

SpecWriter == InitWriter /\ [][NextWriter]_vars

\* the event loop runs the timer callback when it is due
SpecWriterLive == SpecWriter /\ WF_vars(TimerFlush)

\* ---------------------------------------------------- the OpenClaw adapter
\* adapters/openclaw.ts: emitToolCall / emitToolResult build a tool event and
\* hand it to append, which calls the exported fs.appendFileSync on
\* <AGENTCI_RUN_DIR>/trace.jsonl inside a try.  ser: JSON.stringify accepts
\* the input; ok: the append succeeds.
emitToolCall(s, ser, ok) ==
  IF ~Running(s) THEN s
  ELSE LET ev == Event(s, "tool_call", "declared", Null, Null, Null, -1, ser)
           c == [fn |-> "appendFileSync", arg |-> [t |-> "string", p |-> TracePath(s)],
                 ok |-> ok, data |-> <<ev>>]
       IN IF ~ser THEN Fresh(s)
          ELSE Catch(IF s.patched THEN wrapSync(Fresh(s), c) ELSE origFs(Fresh(s), c))

\* the host declares a tool call through the adapter
EmitToolCall ==
  /\ CanCall
  /\ \E ser \in BOOLEAN, ok \in BOOLEAN :
       Commit(Finish(emitToolCall(Cur(ops + 1), ser, ok), "tool", Null, ok))

\* the host's file operations, the timer and the exit, with the adapter
NextAdapter ==
  \/ InitRecorder
  \/ FsSync
  \/ EmitToolCall
  \/ TimerFlush
  \/ Tick
  \/ HostExit

\* the recorder in a host that uses the adapter
SpecAdapter == Init /\ [][NextAdapter]_vars

\* ------------------------------------------- offline policy evaluation
\* canonicalize.ts: the workspace-relative form of a resolved path
toWorkspacePath(resolvedAbs, isLinked) ==
  LET workspaceResolved == WorkspaceReal(isLinked)
      workspaceOriginal == WorkspaceOrig
      relative(root) == SubSeq(resolvedAbs, Len(root) + 2, Len(resolvedAbs))
  IN IF isSubpath(resolvedAbs, workspaceResolved)
     THEN [value |-> relative(workspaceResolved), isExternal |-> FALSE]
     ELSE IF isSubpath(resolvedAbs, workspaceOriginal)
     THEN [value |-> relative(workspaceOriginal), isExternal |-> FALSE]
     ELSE [value |-> resolvedAbs, isExternal |-> TRUE]

\* /tmp/<segment> becomes /<temp> (the paths of this model hold /tmp/
\* nowhere but at their start)
collapseTemp(pathValue) ==
  IF StartsWith(pathValue, <<"/", "tmp", "/">>) /\ Len(pathValue) > 3
  THEN LET seps == {i \in 5..Len(pathValue) : pathValue[i] = "/"}
           next == IF seps = {} THEN Len(pathValue) + 1
                   ELSE CHOOSE i \in seps : \A k \in seps : i <= k
       IN <<"/", "<temp>">> \o SubSeq(pathValue, next, Len(pathValue))
  ELSE pathValue

\* match.ts: normalizePathForMatch ("./" is one token)
normalizePathForMatch(p) == IF Len(p) > 0 /\ p[1] = "./" THEN Tail(p) ELSE p

\* a string that starts with $HOME has that prefix replaced by ~
collapseHome(pathValue) ==
  IF StartsWith(normalizePathForMatch(pathValue), Home)
  THEN <<"~">> \o SubSeq(normalizePathForMatch(pathValue), Len(Home) + 1,
                         Len(normalizePathForMatch(pathValue)))
  ELSE normalizePathForMatch(pathValue)

\* if (redact_paths.length && matchPath(redact_paths, collapsedHome)) return applyRedaction(...)
redactPath(collapsedHome, cfg) ==
  IF cfg.redact_paths # <<>> /\ matchPath(cfg.redact_paths, collapsedHome) = "true"
  THEN applyRedaction(collapsedHome, "path", cfg.hash_values)
  ELSE collapsedHome

normalizeFsPath(value, cfg) ==
  IF value = <<>> THEN Null
  ELSE LET normalized == normalizePathForMatch(value)
           collapsedTemp == IF cfg.collapse_temp THEN collapseTemp(normalized) ELSE normalized
           collapsedHome == IF cfg.collapse_home THEN collapseHome(collapsedTemp)
                            ELSE collapsedTemp
       IN IF matchPath(cfg.ignore_globs, collapsedHome) = "true" THEN Null
          ELSE redactPath(collapsedHome, cfg)

\* normalize.ts: maskArg.  "sk-abcdefghij" matches a default mask pattern;
\* "--token=abc" and "--token=<redacted>" match KEY_VALUE_HINT
maskArg(arg) ==
  IF arg = "sk-abcdefghij" THEN "<redacted>"
  ELSE IF arg \in {"--token=abc", "--token=<redacted>"} THEN "--token=<redacted>"
  ELSE arg

\* normalize.ts: normalizeExecArgv
normalizeExecArgv(argv, cfg) ==
  IF argv = <<>> THEN argv
  ELSE LET masked == [i \in 1..Len(argv) |-> maskArg(argv[i])]
       IN IF cfg.argv_mode = "none" THEN <<masked[1]>>
          ELSE IF cfg.argv_mode = "hash"
          THEN <<masked[1], "<argv_hash:" \o sha256(joinFrom(masked, 1, "|")) \o ">",
                 "<argv_len:" \o ToString(Len(masked)) \o ">">>
          ELSE masked
normalizeExecCommand(command) == IF command = "" THEN command ELSE basename(<<command>>)

\* ------------------------------------------------- the signature builder
\* An effect value is a sequence of tokens (a path, the labels of a host, a
\* key, <<command>>, an argv).  TokenOrder lists the tokens of this model in
\* the order of their UTF-16 code units, and values compare token by token.
TokenOrder ==
  <<"", "\",\"", "\"]", "-data", ".DS_Store", ".agentci", ".env", ".git", ".ssh", "/", "<argv_hash:sha256(ls|-data)>",
    "<argv_len:2>", "<temp>", "AWS_", "EVIL.COM", "HOME", "KEY", "[\"", "[]", "api", "env_var", "etc",
    "evil.com", "file_read", "git", "good.com", "home", "ls", "notes.txt", "out",
    "out.txt", "r", "rm", "runs", "tmp", "trace.jsonl", "w", "workspace", "x", "~">>
Rank(token) == CHOOSE i \in 1..Len(TokenOrder) : TokenOrder[i] = token

\* a < b as Array.prototype.sort compares two strings
RECURSIVE LessFrom(_, _, _)
LessFrom(a, b, i) ==
  IF i > Len(b) THEN FALSE
  ELSE IF i > Len(a) THEN TRUE
  ELSE IF a[i] = b[i] THEN LessFrom(a, b, i + 1)
  ELSE Rank(a[i]) < Rank(b[i])
Less(a, b) == LessFrom(a, b, 1)

\* Boolean(value): the empty string is falsy
Truthy(value) == value # <<>> /\ value # <<"">>

sortedNoSort(values) == SelectSeq(values, Truthy)

sortedNoFilter(values) == SortSeq(values, Less)

\* Array.from(values).filter(Boolean).sort()
sorted(values) == SortSeq(SelectSeq(values, Truthy), Less)

\* a Set keeps its values in insertion order, each once
Has(values, v) == \E i \in 1..Len(values) : values[i] = v

setValue(values, v) == <<v>>

\* Set.prototype.add
addValue(values, v) == IF Has(values, v) THEN values ELSE Append(values, v)

\* JSON.stringify(argv) of an array of strings
RECURSIVE stringifyFrom(_, _)
stringifyFrom(argv, i) ==
  IF i > Len(argv) THEN <<"\"]">>
  ELSE (IF i = 1 THEN <<"[\"">> ELSE <<"\",\"">>) \o <<argv[i]>> \o stringifyFrom(argv, i + 1)
stringifyArgv(argv) == IF argv = <<>> THEN <<"[]">> ELSE stringifyFrom(argv, 1)

\* data.fs.is_workspace_local, as resolvePathBestEffort computed it
isWorkspaceLocal(e, isLinked) ==
  \/ isSubpath(e.res, WorkspaceReal(isLinked)) \/ isSubpath(e.res, WorkspaceOrig)
  \/ isSubpath(e.req, WorkspaceReal(isLinked)) \/ isSubpath(e.req, WorkspaceOrig)

EmptyEffects ==
  [fs_writes |-> <<>>, fs_reads_external |-> <<>>, fs_deletes |-> <<>>,
   net_etld_plus_1 |-> <<>>, net_hosts |-> <<>>, exec_commands |-> <<>>,
   exec_argv |-> <<>>, sensitive_keys_accessed |-> <<>>]
EffectFields == DOMAIN EmptyEffects

\* the case of summarizeTrace's switch for a path event: field is the set
\* the normalized path is added to
summarizePath(effects, field, e, cfg, isLinked) ==
  LET normalized == normalizeFsPath(toWorkspacePath(e.res, isLinked).value, cfg)
  IN IF normalized = Null THEN effects
     ELSE [effects EXCEPT ![field] = addValue(@, normalized)]

\* the body of the loop of summarizeTrace for one event
summarizeEvent(effects, e, cfg, isLinked) ==
  IF e.type # "effect" THEN effects
  ELSE CASE e.cat = "fs_write" -> summarizePath(effects, "fs_writes", e, cfg, isLinked)
         [] e.cat = "fs_delete" -> summarizePath(effects, "fs_deletes", e, cfg, isLinked)
         [] e.cat = "fs_read" ->
              IF toWorkspacePath(e.res, isLinked).isExternal \/ ~isWorkspaceLocal(e, isLinked)
              THEN summarizePath(effects, "fs_reads_external", e, cfg, isLinked)
              ELSE effects
         [] e.cat = "net_outbound" ->
              [effects EXCEPT
                 !.net_hosts = addValue(@, normalizeHost(e.key, cfg)),
                 !.net_etld_plus_1 = addValue(@, toEtldPlus1(normalizeHost(e.key, cfg)))]
         [] e.cat = "exec" ->
              [effects EXCEPT
                 !.exec_commands = addValue(@, <<normalizeExecCommand(normalizeExecArgv(e.res, cfg)[1])>>),
                 !.exec_argv = addValue(@, stringifyArgv(normalizeExecArgv(e.res, cfg)))]
         [] e.cat = "sensitive_access" ->
              IF e.key = Null THEN effects
              ELSE [effects EXCEPT !.sensitive_keys_accessed = addValue(@, e.key)]
         [] OTHER -> effects

RECURSIVE summarizeFrom(_, _, _, _, _)
summarizeFrom(events, i, effects, cfg, isLinked) ==
  IF i > Len(events) THEN effects
  ELSE summarizeFrom(events, i + 1, summarizeEvent(effects, events[i], cfg, isLinked),
                     cfg, isLinked)

\* summarize.ts: the effects of the signature of the events of a trace
summarizeTrace(events, cfg, isLinked) ==
  LET effects == summarizeFrom(events, 1, EmptyEffects, cfg, isLinked)
  IN [f \in EffectFields |-> sorted(effects[f])]

\* evaluate.ts: the finding of each loop of evaluatePolicy on one entry of
\* the signature: "BLOCK", "WARN", "none", or "throw" when a matcher throws
evaluateWrite(writePath, cfg) ==
  LET absolute == writePath[1] = "/"
      workspaceRoot == WorkspaceOrig
      expanded == expandTilde(writePath)
      candidate == IF absolute
                   THEN SubSeq(writePath, Len(workspaceRoot) + 2, Len(writePath))
                   ELSE writePath
      blocked == matchPath(cfg.block_writes, IF absolute THEN expanded ELSE candidate)
      allowed == matchPath(cfg.allow_writes, candidate)
  IN IF absolute /\ ~isSubpath(expanded, workspaceRoot) THEN "BLOCK"
     ELSE IF blocked = "throw" THEN "throw"
     ELSE IF blocked = "true" THEN "BLOCK"
     ELSE IF allowed = "throw" THEN "throw"
     ELSE IF allowed = "true" THEN "none"
     ELSE IF cfg.fs_enforce_allowlist THEN "BLOCK" ELSE "WARN"

evaluateHost(host, cfg) ==
  LET hasNetworkAllowlist == cfg.allow_hosts # {} \/ cfg.allow_etld_plus_1 # {}
      hostAllowed == matchHost(cfg.allow_hosts, host)
      etldAllowed == toEtldPlus1(host) \in cfg.allow_etld_plus_1
  IN IF ~hostAllowed /\ ~etldAllowed /\ (cfg.net_enforce_allowlist \/ hasNetworkAllowlist)
     THEN "BLOCK" ELSE "none"

evaluateCommand(cmd, cfg) ==
  IF cmd \in cfg.block_commands THEN "BLOCK"
  ELSE IF cmd \in cfg.allow_commands THEN "none"
  ELSE IF cfg.exec_enforce_allowlist THEN "BLOCK" ELSE "WARN"

evaluateSensitive(sensitive, cfg) ==
  LET env == matchKey(cfg.block_env, sensitive)
      glob == matchPath(cfg.block_file_globs, expandTilde(sensitive))
  IN IF env = "throw" THEN "throw"
     ELSE IF env = "true" THEN "BLOCK"
     ELSE IF glob = "throw" THEN "throw"
     ELSE IF glob = "true" THEN "BLOCK" ELSE "none"

\* the severities evaluatePolicy returns ({"throw"} when it throws); this
\* summarizeTrace yields no net_protocols and no net_ports, so the loops
\* over them run over the empty list
evaluatePolicy(signature, cfg) ==
  LET in(list) == {list[i] : i \in 1..Len(list)}
      found == {evaluateWrite(w, cfg) : w \in in(signature.fs_writes)}
                 \cup {evaluateHost(h, cfg) : h \in in(signature.net_hosts)}
                 \cup {evaluateCommand(c[1], cfg) : c \in in(signature.exec_commands)}
                 \cup {evaluateSensitive(k, cfg) : k \in in(signature.sensitive_keys_accessed)}
  IN IF "throw" \in found THEN {"throw"} ELSE found \ {"none"}

\* ------------------------------------------------------- the JSONL reader
\* A file is [exists, lines]; lines are the pieces content.split(/\r?\n/)
\* yields, so a file that ends in a line break has an empty last piece.
\* A piece is [k, v]: k = "json" is the text JSON.stringify gives for the
\* value v, "torn" a proper non-empty prefix of that text, "space" white
\* space, "blank" the empty string, "garbage" text that is no JSON.
\* A JSON value is a record shaped like an event whose field j says what
\* it is ("object", "array", "null", "number"); the type of an object
\* without a type field is "absent".
JsonValue(j, type, cat, res, key) ==
  [j |-> j, id |-> 0, type |-> type, cat |-> cat, req |-> res, res |-> res,
   key |-> key, code |-> -1, op |-> 0, ser |-> TRUE]
NoValue == JsonValue("null", "absent", "", Null, Null)
Piece(k, v) == [k |-> k, v |-> v]

\* String.prototype.trim
trim(piece) == IF piece.k = "space" THEN Piece("blank", NoValue) ELSE piece

\* JSON.parse: [threw, value]
JSONparse(piece) ==
  IF piece.k = "json" THEN [threw |-> FALSE, value |-> piece.v]
  ELSE [threw |-> TRUE, value |-> NoValue]

\* parsed && typeof parsed === 'object' && parsed.type
isTypedObject(parsed) ==
  /\ parsed.j # "null"                      \* null is falsy
  /\ parsed.j \in {"object", "array"}       \* typeof parsed === 'object'
  /\ parsed.type \notin {"absent", ""}      \* undefined and '' are falsy

\* the loop of readJsonl from line i on; a line that fails to parse ends
\* the loop when it is the last one and is skipped otherwise
RECURSIVE readJsonlFrom(_, _, _)
readJsonlFrom(lines, i, events) ==
  IF i > Len(lines) THEN events
  ELSE LET line == trim(lines[i])
           parsed == JSONparse(line)
       IN IF line.k = "blank" THEN readJsonlFrom(lines, i + 1, events)
          ELSE IF parsed.threw
               THEN IF i = Len(lines) THEN events
                    ELSE readJsonlFrom(lines, i + 1, events)
          ELSE IF isTypedObject(parsed.value)
               THEN readJsonlFrom(lines, i + 1, Append(events, parsed.value))
               ELSE readJsonlFrom(lines, i + 1, events)

readJsonlStopAtMalformed(f) ==
  IF ~f.exists THEN [threw |-> TRUE, events |-> <<>>]
  ELSE LET bad == {i \in 1..Len(f.lines) : JSONparse(trim(f.lines[i])).threw /\ trim(f.lines[i]).k # "blank"}
           stop == IF bad = {} THEN Len(f.lines) ELSE (CHOOSE i \in bad : \A k \in bad : i <= k) - 1
       IN [threw |-> FALSE, events |-> readJsonlFrom(SubSeq(f.lines, 1, stop), 1, <<>>)]

readJsonlStrict(f) ==
  IF ~f.exists \/ \E i \in 1..Len(f.lines) : f.lines[i].k \in {"torn", "garbage"}
  THEN [threw |-> TRUE, events |-> <<>>]
  ELSE [threw |-> FALSE, events |-> readJsonlFrom(f.lines, 1, <<>>)]

\* fs.readFileSync throws on a file that does not exist
readJsonl(f) ==
  IF ~f.exists THEN [threw |-> TRUE, events |-> <<>>]
  ELSE [threw |-> FALSE, events |-> readJsonlFrom(f.lines, 1, <<>>)]

\* --------------------------------------------------------- offline tools
MaxLines == 3          \* pieces of a trace file given to the offline tools

\* what a trace file may hold: events of the recorder and of the adapter,
\* other JSON values, and text that is no JSON
EvWrite == JsonValue("object", "effect", "fs_write", POut, Null)
EvNet == JsonValue("object", "effect", "net_outbound", Null, <<"EVIL.COM">>)
EvTool == JsonValue("object", "tool_call", "declared", Null, Null)
EvWriteEtc == JsonValue("object", "effect", "fs_write", PEtc, Null)
EvNetLower == JsonValue("object", "effect", "net_outbound", Null, <<"evil.com">>)
EvNetEmpty == JsonValue("object", "effect", "net_outbound", Null, <<"">>)
EvExec == JsonValue("object", "effect", "exec", <<"ls", "-data">>, <<"ls">>)
EvRead == JsonValue("object", "effect", "fs_read", PEtc, Null)
EvSensitive == JsonValue("object", "effect", "sensitive_access", Null, AwsKey)
Pieces ==
  {Piece("json", EvWrite), Piece("json", EvNet), Piece("json", EvTool),
   Piece("json", EvWriteEtc), Piece("json", EvNetLower), Piece("json", EvNetEmpty),
   Piece("json", EvExec), Piece("json", EvRead), Piece("json", EvSensitive),
   Piece("json", JsonValue("object", "absent", "", Null, Null)),
   Piece("json", JsonValue("object", "", "", Null, Null)),
   Piece("json", JsonValue("array", "absent", "", Null, Null)),
   Piece("json", NoValue),
   Piece("torn", EvWrite), Piece("garbage", NoValue),
   Piece("space", NoValue), Piece("blank", NoValue)}
Contents == UNION {[1..n -> Pieces] : n \in 0..MaxLines}

\* agentci summarize <trace> is started on a trace file
InitCli ==
  /\ InitProc({"node"}, {MaxEventsPerSecond})
  /\ faults = [i \in 1..MaxFaults |-> TRUE] /\ ~enforce
  /\ \E lines \in Contents :
       cli = [stage |-> "start", file |-> [exists |-> TRUE, lines |-> lines],
              read |-> [threw |-> FALSE, events |-> <<>>]]

\* const events = readJsonl(tracePath)
CliRead ==
  /\ cli.stage = "start"
  /\ cli' = [cli EXCEPT !.stage = "read", !.read = readJsonl(cli.file)]
  /\ UNCHANGED procVars

\* const signature = summarizeTrace(tracePath, config, version)
CliSummarize ==
  /\ cli.stage = "read" /\ ~cli.read.threw /\ "written" \notin DOMAIN cli
  /\ cli' = ("signature" :> summarizeTrace(cli.read.events, config, linked))
               @@ [cli EXCEPT !.stage = "summarized"]
  /\ UNCHANGED procVars

NextCli == CliRead \/ CliSummarize

SpecCli == InitCli /\ [][NextCli]_vars

\* ----------------------------------------------------- diff and evaluate
\* schema.ts: EffectSignatureSchema.parse keeps the eight fields of the
\* schema and strips every other key of effects (net_protocols and
\* net_ports among them)
loadSignature(raw) == [f \in EffectFields |-> raw[f]]

\* String(port) and Number(value) of diffSignatures
PortValues == {80, 443}
String(port) == ToString(port)
Number(value) == CHOOSE n \in PortValues : ToString(n) = value
isFinite(n) == n \in Int

\* current.effects.net_ports ?? [] (and baseline's, null when absent)
portsOf(signature) ==
  IF signature # Null /\ "net_ports" \in DOMAIN signature THEN signature.net_ports ELSE Null
map(list, Op(_)) == [i \in 1..Len(list) |-> Op(list[i])]

diffSetKeepAll(current, baseline) == current

\* current.filter((value) => !base.has(value)), base = new Set(baseline ?? [])
diffSet(current, baseline) ==
  LET base == IF baseline = Null THEN <<>> ELSE baseline
      absent(value) == ~Has(base, value)
  IN SelectSeq(current, absent)

\* diff.ts: the drift of diffSignatures
diffSignatures(baseline, current) ==
  LET currentPorts == IF portsOf(current) = Null THEN <<>> ELSE portsOf(current)
      baselinePorts == IF portsOf(baseline) = Null THEN Null ELSE map(portsOf(baseline), String)
  IN ("net_ports" :> SelectSeq(map(diffSet(map(currentPorts, String), baselinePorts), Number),
                               isFinite))
       @@ [f \in EffectFields |->
             diffSet(current[f], IF baseline = Null THEN Null ELSE baseline[f])]

summarizeFindingsWarnOnly(findings) ==
  [hasBlock |-> FALSE, hasWarn |-> "WARN" \in findings \/ "BLOCK" \in findings]

\* explain.ts: summarizeFindings
summarizeFindings(findings) ==
  [hasBlock |-> "BLOCK" \in findings, hasWarn |-> "WARN" \in findings]

\* the label the diff and evaluate commands print
summaryLabel(summary) ==
  IF summary.hasBlock THEN "BLOCK" ELSE IF summary.hasWarn THEN "WARN" ELSE "PASS"

\* if (summary.hasBlock) process.exit(1); otherwise the action returns
exitOf(summary) == IF summary.hasBlock THEN 1 ELSE 0

\* the signature files the commands are given: the current signature is the
\* one summarize wrote; a caller of the library may hand signatures that
\* carry net_ports
PortLists == {<<>>, <<443>>, <<80, 443>>}
BaselineLogs == {<<EvWrite>>, <<EvNet, EvExec, EvWriteEtc>>}
withPorts(signature, ports) == ("net_ports" :> ports) @@ signature
BaselineFiles(current) ==
  {Null, current} \cup {summarizeTrace(log, config, linked) : log \in BaselineLogs}

MaxEffects == 3        \* events of a trace given to diff and evaluate
Effects == {EvWrite, EvWriteEtc, EvNet, EvNetLower, EvExec, EvRead, EvSensitive}
InitDiff ==
  /\ InitProc({"node"}, {MaxEventsPerSecond})
  /\ faults = [i \in 1..MaxFaults |-> TRUE] /\ ~enforce
  /\ \E events \in UNION {[1..n -> Effects] : n \in 0..MaxEffects} :
       cli = [stage |-> "start",
              file |-> [exists |-> TRUE,
                        lines |-> [i \in 1..Len(events) |-> Piece("json", events[i])]
                                    \o <<Piece("blank", NoValue)>>],
              read |-> [threw |-> FALSE, events |-> <<>>]]

\* agentci diff / agentci report (a missing baseline file is null), or a
\* call of diffSignatures by a user of the library
CliDiff ==
  /\ cli.stage = "summarized"
  /\ \E b \in BaselineFiles(cli.signature), via \in {"cli", "api"}, cp \in PortLists, bp \in PortLists :
       /\ via = "cli" => cp = <<>> /\ bp = <<>>
       /\ LET rawCurrent == withPorts(cli.signature, cp)
              rawBaseline == IF b = Null THEN Null ELSE withPorts(b, bp)
              current == IF via = "cli" THEN loadSignature(rawCurrent) ELSE rawCurrent
              baseline == IF rawBaseline = Null THEN Null
                          ELSE IF via = "cli" THEN loadSignature(rawBaseline) ELSE rawBaseline
          IN cli' = ("baseline" :> baseline) @@ ("current" :> current)
                      @@ ("drift" :> diffSignatures(baseline, current))
                      @@ [cli EXCEPT !.stage = "diffed"]
  /\ UNCHANGED procVars

\* agentci evaluate <signature> / the verdict of agentci diff
CliEvaluate ==
  /\ cli.stage = "summarized"
  /\ \E format \in {"text", "json"} :
       LET findings == evaluatePolicy(loadSignature(cli.signature), config)
           summary == summarizeFindings(findings)
       IN cli' = ("findings" :> findings) @@ ("summary" :> summary)
                   @@ ("label" :> IF format = "text" THEN summaryLabel(summary) ELSE "")
                   @@ ("exit" :> exitOf(summary))
                   @@ [cli EXCEPT !.stage = "evaluated"]
  /\ UNCHANGED procVars

NextDiff == CliRead \/ CliSummarize \/ CliDiff \/ CliEvaluate

SpecDiff == InitDiff /\ [][NextDiff]_vars

\* ------------------------------------------------------- trace integrity
\* The bytes of a file are a sequence of units: "a" and "b" are ASCII
\* bytes, "EFBFBD" the three bytes that encode U+FFFD, "FF" a byte that
\* is no UTF-8.  A text is a sequence of characters.
Utf8Units == {"a", "b", "EFBFBD"}
ByteUnits == Utf8Units \cup {"FF"}

\* fs.readFileSync(path, 'utf8'): bytes that are no UTF-8 decode to U+FFFD
decodeUnit(unit) == IF unit \in {"EFBFBD", "FF"} THEN "U+FFFD" ELSE unit
decodeUtf8(bytes) == [i \in 1..Len(bytes) |-> decodeUnit(bytes[i])]

\* String.prototype.trim of the secret file's text
trimSecret(text) ==
  IF Len(text) > 0 /\ text[Len(text)] = "\n" THEN SubSeq(text, 1, Len(text) - 1) ELSE text

\* an optional argument: [given, value]
NoArg == [given |-> FALSE, value |-> <<>>]
Arg(value) == [given |-> TRUE, value |-> value]

legacyKey(runId) == <<"agentci-legacy:", runId>>

\* integrity.ts: loadSecret
loadSecret(secretFile, runId) ==
  IF secretFile.exists THEN trimSecret(secretFile.text) ELSE legacyKey(runId)

\* HMAC-SHA256 as a function that has no collisions: the digest names its
\* key and its message
createHmac(key, content) == [key |-> key, content |-> content]

\* integrity.ts: computeTraceHmac (the caller has checked nothing: a
\* missing trace makes readFileSync throw)
computeTraceHmac(trace, runId, secret) ==
  LET key == IF secret.given THEN secret.value ELSE legacyKey(runId)
  IN createHmac(key, decodeUtf8(trace.bytes))

NoChecksum == [state |-> "absent", hmac |-> createHmac(<<>>, <<>>), run_id |-> "", key_source |-> ""]

\* secret ? 'project-secret' : 'legacy'
keySource(secret) ==
  IF secret.given /\ secret.value # <<>> THEN "project-secret" ELSE "legacy"

\* integrity.ts: writeTraceChecksum, the checksum file it writes
writeTraceChecksum(trace, secretFile, runId, secret) ==
  LET key == IF secret.given THEN secret.value ELSE loadSecret(secretFile, runId)
      hmac == computeTraceHmac(trace, runId, Arg(key))
  IN [state |-> "json", hmac |-> hmac, run_id |-> runId, key_source |-> keySource(secret)]

Result(valid, details) == [threw |-> FALSE, valid |-> valid, details |-> details]
Thrown == [threw |-> TRUE, valid |-> FALSE, details |-> ""]

\* integrity.ts: verifyTraceIntegrity
verifyTraceIntegrity(trace, checksum, secretFile, runId, secret) ==
  IF checksum.state = "absent" THEN Result(FALSE, "not found")
  ELSE IF checksum.state = "garbage" THEN Result(FALSE, "Invalid checksum file")
  ELSE IF checksum.run_id # runId THEN Result(FALSE, "Run ID mismatch")
  ELSE IF ~trace.exists THEN Thrown
  ELSE LET key == IF secret.given THEN secret.value ELSE loadSecret(secretFile, runId)
       IN IF computeTraceHmac(trace, runId, Arg(key)) # checksum.hmac
          THEN Result(FALSE, "modified")
          ELSE Result(TRUE, IF checksum.key_source = "project-secret"
                            THEN "verified (project secret)" ELSE "verified (legacy key)")

MaxBytes == 2          \* units of a trace file whose integrity is checked
RunIds == {"run-1", "run-2"}
Secrets == {<<"k1">>, <<"k2">>}
NoSecretFile == [exists |-> FALSE, text |-> <<>>]
SecretFileOf(text) == [exists |-> TRUE, text |-> text]
Traces == {<<>>, <<"a">>, <<"EFBFBD">>}
Tampered == UNION {[1..n -> ByteUnits] : n \in 0..MaxBytes}

\* a run directory with its trace, and the project's secret file or none
InitIntegrity ==
  /\ InitProc({"node"}, {MaxEventsPerSecond})
  /\ faults = [i \in 1..MaxFaults |-> TRUE] /\ ~enforce /\ ~linked
  /\ \E bytes \in Traces, sf \in {NoSecretFile, SecretFileOf(<<"k1", "\n">>)} :
       cli = [stage |-> "trace", file |-> [exists |-> TRUE, bytes |-> bytes],
              secretFile |-> sf, checksum |-> NoChecksum,
              keyed |-> <<>>, summed |-> <<>>, how |-> "", inited |-> FALSE,
              verifyKey |-> <<>>, verifyRun |-> "", result |-> Thrown]

\* the checksum is written: by a caller of writeTraceChecksum with a secret
\* or without one, or by the summarize command (main.ts), which hands over
\* what loadSecret returned
WriteChecksum ==
  /\ cli.stage = "trace"
  /\ \E runId \in RunIds, how \in {"secret", "none", "summarize"} :
       LET secret == CASE how = "secret" -> Arg(<<"k1">>)
                       [] how = "none" -> NoArg
                       [] OTHER -> Arg(loadSecret(cli.secretFile, runId))
           written == writeTraceChecksum(cli.file, cli.secretFile, runId, secret)
       IN cli' = [cli EXCEPT !.stage = "written", !.checksum = written, !.how = how,
                             !.keyed = written.hmac.key, !.summed = cli.file.bytes]
  /\ UNCHANGED procVars

\* after the checksum was written the trace is changed or removed
TamperTrace ==
  /\ cli.stage = "written" /\ cli.file = [exists |-> TRUE, bytes |-> cli.summed]
  /\ \/ \E bytes \in Tampered \ {cli.summed} :
          cli' = [cli EXCEPT !.file = [exists |-> TRUE, bytes |-> bytes]]
     \/ cli' = [cli EXCEPT !.file = [exists |-> FALSE, bytes |-> <<>>]]
  /\ UNCHANGED procVars

\* the checksum file is removed or overwritten with text that is no JSON
TamperChecksum ==
  /\ cli.stage = "written" /\ cli.checksum.state = "json"
  /\ \E state \in {"absent", "garbage"} : cli' = [cli EXCEPT !.checksum = [NoChecksum EXCEPT !.state = state]]
  /\ UNCHANGED procVars

\* the project's secret is created, replaced or removed
ChangeSecret ==
  /\ cli.stage = "written"
  /\ cli.secretFile \in {NoSecretFile, SecretFileOf(<<"k1", "\n">>)}
  /\ \E sf \in {NoSecretFile, SecretFileOf(<<"k1">>), SecretFileOf(<<"k2">>)} \ {cli.secretFile} :
       cli' = [cli EXCEPT !.secretFile = sf]
  /\ UNCHANGED procVars

\* verifyTraceIntegrity(tracePath, runId, secret?) is called; the verify
\* command hands over what loadSecret returned, which is the key that
\* verifyTraceIntegrity loads itself when it is given none
Verify ==
  /\ cli.stage = "written"
  /\ \E runId \in RunIds, secret \in {NoArg} \cup {Arg(k) : k \in Secrets} :
       cli' = [cli EXCEPT
                 !.stage = "verified", !.verifyRun = runId,
                 !.verifyKey = IF secret.given THEN secret.value
                               ELSE loadSecret(cli.secretFile, runId),
                 !.result = verifyTraceIntegrity(cli.file, cli.checksum, cli.secretFile,
                                                 runId, secret)]
  /\ UNCHANGED procVars

\* the init command (main.ts): writeSecret generates a project secret
\* unless the secret file exists; before or after the checksum is written
initProject ==
  /\ cli.stage \in {"trace", "written"}
  /\ ~cli.secretFile.exists
  /\ \E generated \in Secrets :
       cli' = [cli EXCEPT !.secretFile = SecretFileOf(generated), !.inited = TRUE]
  /\ UNCHANGED procVars

NextIntegrity ==
  WriteChecksum \/ TamperTrace \/ TamperChecksum \/ ChangeSecret \/ initProject \/ Verify

SpecIntegrity == InitIntegrity /\ [][NextIntegrity]_vars

\* ------------------------------------------------- normalization rules
\* the rules applied to one value: a path, a host or an argv vector
normalize(kind, value, cfg) ==
  CASE kind = "path" -> normalizeFsPath(value, cfg)
    [] kind = "host" -> normalizeHost(value, cfg)
    [] OTHER -> normalizeExecArgv(value, cfg)

NormPaths ==
  {PEtc, PHome, POut, <<"/", "tmp", "/", "x", "/", "out.txt">>, <<".git", "/", "x">>,
   <<"./", "out.txt">>, <<"./", "./", "out.txt">>, <<"./", "./", "./", "out.txt">>}
NormHosts ==
  {<<"EVIL.COM">>, <<"evil.com", ".">>, <<"evil.com", ":80">>, <<"evil.com", ".", ":80">>,
   <<"evil.com", ".", ".">>, <<"api", "good.com">>}
NormArgvs ==
  {<<>>, <<"ls">>, <<"ls", "-data">>, <<"git", "--token=abc">>, <<"git", "sk-abcdefghij">>}
NormInputs ==
  {[kind |-> "path", value |-> v] : v \in NormPaths}
    \cup {[kind |-> "host", value |-> v] : v \in NormHosts}
    \cup {[kind |-> "argv", value |-> v] : v \in NormArgvs}
NormConfigs ==
  {[defaultConfig EXCEPT !.collapse_temp = ct, !.collapse_home = ch, !.normalize_hosts = nh,
                         !.argv_mode = mode, !.hash_values = hv,
                         !.redact_paths = IF redact THEN << [k |-> "under", p |-> <<"/", "etc">>] >>
                                          ELSE <<>>,
                         !.redact_urls = IF redact THEN {[k |-> "suffix", t |-> <<"good.com">>]}
                                         ELSE {}] :
     ct \in BOOLEAN, ch \in BOOLEAN, nh \in BOOLEAN, mode \in {"full", "hash", "none"},
     hv \in BOOLEAN, redact \in BOOLEAN}

\* a value and a configuration are given to the normalization rules
InitNormalize ==
  /\ InitProc({"node"}, {MaxEventsPerSecond})
  /\ faults = [i \in 1..MaxFaults |-> TRUE] /\ ~enforce /\ ~linked
  /\ \E input \in NormInputs, cfg \in NormConfigs :
       cli = [stage |-> "input", kind |-> input.kind, value |-> input.value, cfg |-> cfg,
              once |-> <<>>, twice |-> <<>>]

\* the rules are applied, and applied again to their result
Normalize ==
  /\ cli.stage = "input"
  /\ LET once == normalize(cli.kind, cli.value, cli.cfg)
     IN cli' = [cli EXCEPT !.stage = "normalized", !.once = once,
                           !.twice = normalize(cli.kind, once, cli.cfg)]
  /\ UNCHANGED procVars

NextNormalize == Normalize

SpecNormalize == InitNormalize /\ [][NextNormalize]_vars

\* ------------------------------------------------------ an abrupt kill
\* JSON.stringify(event): the text of one line of the trace
stringify(e) ==
  Piece("json", [j |-> "object", id |-> e.id, type |-> e.type, cat |-> e.cat, req |-> e.req,
                 res |-> e.res, key |-> e.key, code |-> e.code, op |-> e.op, ser |-> e.ser])

\* the pieces of a file that holds the given lines; end is what follows the
\* last complete line: a line break ("none"), nothing ("nobreak"), or
\* the beginning of the line next ("torn")
FileOf(events, end, next) ==
  [exists |-> TRUE,
   lines |-> [i \in 1..Len(events) |-> stringify(events[i])]
               \o (CASE end = "none" -> << Piece("blank", NoValue) >>
                     [] end = "nobreak" -> << >>
                     [] OTHER -> << Piece("torn", stringify(next).v) >>)]

\* SIGKILL: no listener runs and the buffer is lost.  The kill comes
\* between two handlers (k = 0 and end = "none") or in the middle of the
\* append of the flush that is due, which has then written k of the
\* buffered lines completely and, with end = "torn", part of the next.
\* written (history): the events whose lines are complete.
Kill ==
  /\ phase = "ready" /\ cli.stage = "idle"
  /\ \E k \in 0..Len(buffer), end \in {"none", "nobreak", "torn"} :
       /\ end = "torn" => k < Len(buffer)
       /\ end = "nobreak" => k > 0
       /\ LET written == file \o SubSeq(buffer, 1, k)
              next == IF k < Len(buffer) THEN buffer[k + 1] ELSE buildLifecycle(Cur(0), "stop", 0)
          IN cli' = [stage |-> "start", file |-> FileOf(written, end, next),
                     read |-> [threw |-> FALSE, events |-> <<>>], written |-> written]
  /\ phase' = "exited" /\ exitCode' = 137
  /\ UNCHANGED <<appendImpl, faults, linked, runInside, enforce, config, patched,
                 agentciOriginalCache, agentciRealCache, buffer, closed, flushTimer,
                 maxEventsPerSecond, windowResets, eventCountInWindow, windowStartMs,
                 droppedInWindow, totalDropped, totalEvents, bypass, file, stopped,
                 clock, nextId, pending, ops, emitted, accepted, obs, calls,
                 appendFailed, writerThrew, lastCall>>

\* a recorded host that is killed, and the reader run on what it left
NextKill ==
  \/ InitRecorder
  \/ FsSync
  \/ TimerFlush
  \/ Tick
  \/ Kill
  \/ CliRead

SpecKill == Init /\ [][NextKill]_vars

\* ------------------------------------------------------------ properties
Range(seq) == {seq[i] : i \in 1..Len(seq)}

\* the effect events handed to the writer on behalf of host operation op
EventsOf(op) == SelectSeq(emitted, LAMBDA e : e.type = "effect" /\ e.op = op)
Shape(events) == [i \in 1..Len(events) |-> <<events[i].cat, events[i].req>>]
FsCategories == {"fs_write", "fs_read", "fs_delete"}
Triggers == {o.at : o \in obs}

\* C1: in recording mode the host observes exactly the outcome of the
\* original of every patched operation: it returns when the original
\* returns and throws the original's error when the original throws.
C1_HostObservesOriginal ==
  (~enforce /\ lastCall.kind # "none")
    => lastCall.host = (IF lastCall.orig = "ok" THEN "ok" ELSE "orig")

\* C2: initRecorder never throws into the host, whatever the policy config
\* file holds: the module always loads and the host starts.
C2_InitNeverThrows == phase # "crashed"

\* C3: no TraceWriter method (constructor, write, flush, close) throws into
\* its caller, and the writer keeps accepting: while it is open and the
\* rate limit was never hit, every serializable event handed to it was
\* accepted, whatever appends or serializations failed before.
C3_WriterFailOpen ==
  /\ ~writerThrew
  /\ (~closed /\ totalDropped = 0) => accepted = SelectSeq(emitted, LAMBDA e : e.ser)

\* an append failed, a serialization failed, and an event was accepted after
\* the failed flush emptied the buffer
C3_Witness ==
  /\ appendFailed /\ ~closed /\ Len(buffer) > 0
  /\ \E e \in Range(emitted) : ~e.ser

\* C4: bypass is true when the append primitive is entered and false when
\* any flush returns (buffer, timer, close or enforcer; append succeeded or
\* threw), and false between handlers.
C4_BypassOnlyDuringAppend ==
  /\ ~bypass
  /\ \A o \in obs : o.bypass <=> (o.at = "append")

\* an append threw, and flushes of the timer, the enforcer and close returned
C4_Witness == appendFailed /\ {"append", "timer", "enforcer", "close"} \subseteq Triggers

\* C5: a wrapper entered while bypass is set hands no event to the writer.
C5_BypassSilencesWrappers == \A c \in calls : ~c.wrote

\* C6: no file event has a resolved path under <workspace>/.agentci or
\* under its realpath, and no file event is about the trace file.
AgentciReal == WorkspaceReal(linked) \o <<"/", ".agentci">>
C6_OwnIoNotRecorded ==
  \A e \in Range(emitted) :
    e.cat \in FsCategories =>
      /\ ~isSubpath(e.res, AgentciOrig)
      /\ ~isSubpath(e.res, AgentciReal)
      /\ e.req # TracePathOf(runInside)

\* C7: a file operation whose original threw, called back with an error or
\* rejected produced no event.
C7_FsEventOnlyOnSuccess ==
  (lastCall.kind = "fs" /\ lastCall.orig = "err") => EventsOf(lastCall.op) = <<>>

\* an asynchronous file operation failed after a later operation of the host,
\* in a run that recorded a file event
C7_Witness ==
  /\ lastCall.kind = "fs" /\ lastCall.orig = "err" /\ lastCall.op < ops
  /\ \E e \in Range(emitted) : e.cat \in FsCategories

\* C8: a subprocess or network operation whose original threw produced no
\* event.
C8_ExecNetEventOnlyOnSuccess ==
  (lastCall.kind \in {"exec", "net"} /\ lastCall.orig = "err")
    => EventsOf(lastCall.op) = <<>>

\* C9 as stated: a successful rename produced an fs_delete of the source
\* and then an fs_write of the destination, a failed rename no event.
C9_RenameDeleteThenWrite ==
  lastCall.rename # Null =>
    Shape(EventsOf(lastCall.op)) =
      IF lastCall.orig = "ok"
      THEN << <<"fs_delete", lastCall.rename.old>>, <<"fs_write", lastCall.rename.new>> >>
      ELSE <<>>

\* the self-I/O filter applied to the path an event would carry
Exempt(p, exists) ==
  LET r == resolvePathBestEffort(p, exists, linked).resolvedAbs
  IN \/ StartsWith(r, AgentciOrig)
     \/ agentciRealCache # Null /\ StartsWith(r, agentciRealCache)

\* C9: a successful rename produced an fs_delete of the source and then an
\* fs_write of the destination, each unless the self-I/O filter exempts its
\* resolved path, and nothing else; a failed rename produced no event.
C9_RenameDeleteThenWriteUnlessExempt ==
  lastCall.rename # Null =>
    Shape(EventsOf(lastCall.op)) =
      IF lastCall.orig = "ok"
      THEN (IF Exempt(lastCall.rename.old, FALSE) THEN <<>>
            ELSE << <<"fs_delete", lastCall.rename.old>> >>)
           \o (IF Exempt(lastCall.rename.new, TRUE) THEN <<>>
               ELSE << <<"fs_write", lastCall.rename.new>> >>)
      ELSE <<>>

\* a rename into <workspace>/.agentci succeeded and left the delete alone
C9_Witness ==
  /\ lastCall.rename # Null /\ lastCall.orig = "ok"
  /\ Shape(EventsOf(lastCall.op)) = << <<"fs_delete", lastCall.rename.old>> >>

\* C10: the lines of the trace file are accepted events, in the order of
\* their acceptance and none twice; when no append failed the file followed
\* by the buffer is the sequence of accepted events.
Pos(seq, e) == CHOOSE i \in 1..Len(seq) : seq[i] = e
C10_FileInAcceptanceOrder ==
  /\ \A i \in 1..Len(file) : file[i] \in Range(accepted)
  /\ \A i, j \in 1..Len(file) : i < j => Pos(accepted, file[i]) < Pos(accepted, file[j])
  /\ ~appendFailed => file \o buffer = accepted

\* lines written by a buffer-full flush and by a timer flush
C10_Witness == Len(file) >= 3 /\ {"buffer", "timer"} \subseteq Triggers

\* the writes made before close, in call order
WritesWhileOpen == SubSeq(emitted, 1, totalEvents)
Min(a, b) == IF a < b THEN a ELSE b
Max(a, b) == IF a > b THEN a ELSE b

C12_BufferBelowSize ==
  /\ Len(buffer) < BufferSize
  /\ \A o \in obs : /\ o.at = "buffer" => o.n = BufferSize
                     /\ o.n \in 1..BufferSize
  /\ ("buffer" \in Triggers /\ ~appendFailed) => Len(file) >= BufferSize

\* a full buffer was flushed and a later write is buffered
C12_Witness ==
  /\ "buffer" \in Triggers /\ ~appendFailed
  /\ Len(buffer) = BufferSize - 1 /\ Len(file) = BufferSize

Lifecycle(events, stage) ==
  SelectSeq(events, LAMBDA e : e.type = "lifecycle" /\ e.cat = stage)

\* C15: whatever termination triggers arrive, one lifecycle stop event is
\* handed to the writer when the recorder stopped and none before, the file
\* holds at most one, and the writer is closed exactly when the recorder
\* stopped.
C15_StopOnce ==
  /\ Len(Lifecycle(emitted, "stop")) = (IF stopped THEN 1 ELSE 0)
  /\ Len(Lifecycle(file, "stop")) <= 1
  /\ closed <=> stopped

\* an uncaught exception stopped the recorder and the process exited later
C15_Witness ==
  /\ phase = "exited" /\ exitCode = 0 /\ stopped
  /\ Len(Lifecycle(emitted, "stop")) = 1 /\ Lifecycle(emitted, "stop")[1].code = 1

\* The recorder's state as the code holds it: UNINITIALIZED (0) until
\* initRecorder returned, READY (1) until stopOnce ran, STOPPED (3) after;
\* STOPPING (2) lasts from the assignment of stopOnce to the return of
\* close, within one handler.
RecorderState == IF phase \in {"boot", "crashed"} THEN 0 ELSE IF stopped THEN 3 ELSE 1

\* C16: the recorder's state never decreases, the writer is closed in
\* STOPPED, and a step taken in STOPPED (a termination trigger, a patch
\* callback, the exit of the process) changes neither the state nor the
\* trace file nor the buffer.
C16_StateOnlyAdvances ==
  /\ [](RecorderState = 3 => closed)
  /\ [][/\ RecorderState' >= RecorderState
        /\ RecorderState = 3 => (file' = file /\ buffer' = buffer /\ closed')]_vars

\* a patched call of the host arrived in STOPPED
C16_Witness ==
  /\ RecorderState = 3 /\ Len(file) > 0
  /\ \E i, j \in 1..Len(emitted) :
       /\ i < j
       /\ emitted[i].type = "lifecycle" /\ emitted[i].cat = "stop"
       /\ emitted[j].type = "effect"

IsLifecycle(e, stage) == e.type = "lifecycle" /\ e.cat = stage

\* the handler of an uncaught exception (or unhandled rejection) was the
\* first termination trigger: its error event and its stop event were
\* handed to the writer one after the other
CrashStopped ==
  \E i \in 1..(Len(emitted) - 1) :
    IsLifecycle(emitted[i], "error") /\ IsLifecycle(emitted[i + 1], "stop")

\* C17: after an uncaught exception the file holds, in this order, the
\* lifecycle start, the effect events accepted before it, one lifecycle
\* error and one lifecycle stop with exit_code 1 (the patches were
\* installed and no append failed).
C17_CrashTrace ==
  (stopped /\ CrashStopped /\ patched /\ ~appendFailed) =>
    LET n == Len(file)
    IN /\ n >= 3
       /\ IsLifecycle(file[1], "start")
       /\ \A i \in 2..(n - 2) : file[i].type = "effect"
       /\ IsLifecycle(file[n - 1], "error")
       /\ IsLifecycle(file[n], "stop") /\ file[n].code = 1
       /\ file = accepted

\* C18: after the process exited with code c the file holds every accepted
\* event and its last line is a lifecycle stop with exit_code c (no append
\* failed).
C18_ExitTrace ==
  (phase = "exited" /\ ~appendFailed) =>
    /\ file = accepted
    /\ Len(file) > 0
    /\ IsLifecycle(file[Len(file)], "stop") /\ file[Len(file)].code = exitCode

\* the policy verdict of the enforcer on an event, under the loaded config
Blocked(e) == e.type = "effect" /\ shouldBlock(Cur(0), e) = "block"

\* C19: with enforce set, once the writer accepted an effect event that the
\* policy blocks (fs_write, net_outbound, exec or sensitive_access) the
\* process has exited with code 1 and the event is in the file (no append
\* failed).
C19_BlockTerminates ==
  (enforce /\ ~appendFailed) =>
    \A e \in Range(accepted) :
      Blocked(e) => (phase = "exited" /\ exitCode = 1 /\ e \in Range(file))

\* the offline verdict on a log that holds one event: evaluatePolicy on
\* the signature of that log returns a BLOCK finding
EvaluatorBlocks(e) ==
  "BLOCK" \in evaluatePolicy(summarizeTrace(<<e>>, config, linked), config)

\* C20: for every single effect event and the loaded policy, the enforcer
\* blocks the event if and only if the offline evaluator returns at least
\* one BLOCK finding for the signature of a log holding only that event.
C20_EnforcerMatchesEvaluator ==
  \A e \in Range(emitted) :
    e.type = "effect" => (Blocked(e) <=> EvaluatorBlocks(e))

\* C21: during a recording every line of the trace file was written by a
\* flush of the TraceWriter, that is, it is an event the writer accepted;
\* no other component of the recorder appends to the file.
C21_OnlyWriterWritesTrace ==
  \A i \in 1..Len(file) : file[i] \in Range(accepted)

\* the values of the pieces that are the text of a JSON object with a type
\* field (had: with any type field; else: with a type that is not falsy)
TypedLines(lines, had) ==
  LET keep(piece) == /\ trim(piece).k = "json" /\ piece.v.j = "object"
                     /\ piece.v.type # "absent" /\ (had \/ piece.v.type # "")
      kept == SelectSeq(lines, keep)
  IN [i \in 1..Len(kept) |-> kept[i].v]

\* C23 as stated: the reader returns exactly the lines that parse as JSON
\* objects with a type field, in file order, and never throws.
C23_ReaderReturnsLinesWithType ==
  cli.stage = "read" =>
    (~cli.read.threw /\ cli.read.events = TypedLines(cli.file.lines, TRUE))

\* C23: for any content the reader does not throw and returns, in file
\* order, exactly the lines that parse as JSON objects whose type is not
\* falsy; blank lines, malformed lines anywhere (a torn final line
\* included), other JSON values and objects without a type are skipped
\* and do not affect the other lines.
C23_ReaderReturnsTypedLines ==
  cli.stage = "read" =>
    (~cli.read.threw /\ cli.read.events = TypedLines(cli.file.lines, FALSE))

\* a file with a malformed line before an event and a torn final line
C23_Witness ==
  /\ cli.stage = "read" /\ Len(cli.file.lines) = 3
  /\ cli.file.lines[1].k = "garbage" /\ cli.file.lines[2] = Piece("json", EvNet)
  /\ cli.file.lines[3].k = "torn"
  /\ cli.read.events = <<EvNet>>

\* C22: when the host is killed at any instant, in the middle of an append
\* included, the reader run on the trace left on disk does not fail and
\* returns exactly the events whose lines were written completely before
\* the kill, in order, and no partially written one.
C22_KilledTraceReadable ==
  (cli.stage = "read" /\ "written" \in DOMAIN cli) =>
    /\ ~cli.read.threw
    /\ cli.read.events = [i \in 1..Len(cli.written) |-> stringify(cli.written[i]).v]

\* killed in the middle of the append of a buffered line, after earlier
\* flushes wrote two lines or more
C22_Witness ==
  /\ cli.stage = "read" /\ "written" \in DOMAIN cli
  /\ Len(cli.written) >= 2 /\ Len(buffer) > 0
  /\ cli.file.lines[Len(cli.file.lines)].k = "torn"
  /\ Len(cli.read.events) = Len(cli.written)

\* C24: for any log and any permutation of its events, summarize produces
\* identical effect lists.
Permuted(events, p) == [i \in 1..Len(events) |-> events[p[i]]]
C24_SummarizeOrderIndependent ==
  cli.stage = "summarized" =>
    \A p \in Permutations(1..Len(cli.read.events)) :
      summarizeTrace(Permuted(cli.read.events, p), config, linked) = cli.signature
\* a log of three events whose first-seen order is not the sorted order
C24_Witness ==
  /\ cli.stage = "summarized" /\ Len(cli.read.events) = 3
  /\ cli.read.events[1] = EvWrite /\ cli.read.events[2] = EvWriteEtc
  /\ cli.signature.fs_writes = <<PEtc, <<"out.txt">> >>

\* C25: every element of summarize(L1).effects[f] is an element of
\* summarize(L1 followed by L2).effects[f], for every effect field f.
C25_SummarizeMonotone ==
  cli.stage = "summarized" =>
    \A k \in 0..Len(cli.read.events), f \in EffectFields :
      Range(summarizeTrace(SubSeq(cli.read.events, 1, k), config, linked)[f])
        \subseteq Range(cli.signature[f])
\* L1 has a host, L2 adds a write and a command
C25_Witness ==
  /\ cli.stage = "summarized" /\ Len(cli.read.events) = 3
  /\ cli.read.events[1] = EvNet /\ cli.read.events[2] = EvWrite
  /\ cli.read.events[3] = EvExec
  /\ Len(cli.signature.net_hosts) = 1 /\ Len(cli.signature.exec_argv) = 1

IsSubSeq(small, big) ==
  \E pos \in [1..Len(small) -> 1..Len(big)] :
    /\ \A i \in 1..Len(small) : small[i] = big[pos[i]]
    /\ \A i, k \in 1..Len(small) : i < k => pos[i] < pos[k]
FieldOf(signature, f) ==
  IF signature = Null \/ f \notin DOMAIN signature THEN <<>> ELSE signature[f]
C27_DriftIsCurrentMinusBaseline ==
  cli.stage = "diffed" =>
    /\ \A f \in EffectFields \cup {"net_ports"} :
         /\ Range(cli.drift[f]) = Range(FieldOf(cli.current, f)) \ Range(FieldOf(cli.baseline, f))
         /\ Len(cli.drift[f]) = Cardinality(Range(cli.drift[f]))
         /\ IsSubSeq(cli.drift[f], FieldOf(cli.current, f))
    /\ cli.baseline = cli.current => \A f \in DOMAIN cli.drift : cli.drift[f] = <<>>
    /\ cli.baseline = Null => \A f \in DOMAIN cli.drift : cli.drift[f] = FieldOf(cli.current, f)
\* the first of two writes and the host are in the baseline, a port drifted
C27_Witness ==
  /\ cli.stage = "diffed" /\ cli.baseline # Null
  /\ Len(cli.current.fs_writes) = 2 /\ Len(cli.drift.fs_writes) = 1
  /\ cli.drift.fs_writes[1] = cli.current.fs_writes[2]
  /\ Len(cli.baseline.net_hosts) = 1 /\ cli.drift.net_hosts = <<>>
  /\ cli.drift.net_ports = <<80>>

\* C28: the verdict is BLOCK if some finding is BLOCK, else WARN if some
\* finding is WARN, else PASS; diff and evaluate exit with 1 exactly when
\* the verdict is BLOCK and with 0 otherwise.
Verdict(findings) ==
  IF \E s \in findings : s = "BLOCK" THEN "BLOCK"
  ELSE IF \E s \in findings : s = "WARN" THEN "WARN" ELSE "PASS"
C28_VerdictAndExitCode ==
  cli.stage = "evaluated" =>
    /\ summaryLabel(cli.summary) = Verdict(cli.findings)
    /\ cli.label # "" => cli.label = Verdict(cli.findings)
    /\ cli.exit = (IF Verdict(cli.findings) = "BLOCK" THEN 1 ELSE 0)
\* a signature with both a WARN and a BLOCK finding
C28_Witness ==
  /\ cli.stage = "evaluated" /\ cli.findings = {"WARN", "BLOCK"}
  /\ cli.label = "BLOCK" /\ cli.exit = 1
C28_WitnessWarn ==
  /\ cli.stage = "evaluated" /\ cli.findings = {"WARN"} /\ cli.exit = 0

\* C29: verify returns valid = true if and only if the checksum file
\* exists and parses, its run_id is the run id given to verify, the
\* verifying key is the key the checksum was written with and the trace's
\* bytes are those that were checksummed; a trace changed after the
\* checksum was written gives valid = false with details "modified".
Unchanged == cli.file.exists /\ cli.file.bytes = cli.summed
C29_VerifyDetectsEveryChange ==
  cli.stage = "verified" =>
    /\ (~cli.result.threw /\ cli.result.valid)
         <=> /\ cli.checksum.state = "json" /\ cli.checksum.run_id = cli.verifyRun
             /\ cli.verifyKey = cli.keyed /\ Unchanged
    /\ (cli.checksum.state = "json" /\ cli.checksum.run_id = cli.verifyRun /\ ~Unchanged)
         => cli.result = Result(FALSE, "modified")

\* C30: key_source is project-secret exactly when the HMAC was keyed by
\* the project secret, and legacy exactly when it was keyed by
\* agentci-legacy:<run_id>, however the checksum was produced.
C30_KeySourceNamesTheKey ==
  cli.checksum.state = "json" =>
    /\ cli.checksum.key_source = "legacy" <=> cli.keyed = legacyKey(cli.checksum.run_id)
    /\ cli.checksum.key_source = "project-secret" <=> cli.keyed \in Secrets

\* C31: applying the normalization rules twice gives the same result as
\* applying them once, for every path, host and argv vector and every
\* configuration.
C31_NormalizeIdempotent ==
  cli.stage = "normalized" => cli.twice = cli.once

\* C32: while the host process is running its effects are recorded: every
\* effect event handed to the writer (that serializes and is not dropped
\* by the rate limit) is accepted, also after an uncaught exception or an
\* unhandled rejection that the process survived.
C32_EffectsRecordedWhileRunning ==
  totalDropped = 0 =>
    \A e \in Range(emitted) : (e.type = "effect" /\ e.ser) => e \in Range(accepted)

\* C33: a host that ends with an uncaught exception or an unhandled
\* rejection (the recorder's listener ran) terminates with a non-zero exit
\* code, as it would without the recorder.
ErrorSeen == patched /\ CrashStopped
C33_CrashExitsNonZero ==
  (phase = "exited" /\ ErrorSeen) => exitCode # 0

\* C34: whatever the event rate before termination, a run whose
\* termination handler ran has exactly one lifecycle stop event in its
\* trace (no append failed).
C34_StopNeverRateLimited ==
  (stopped /\ ~appendFailed) => Len(Lifecycle(file, "stop")) = 1

\* C38: when the enforcer terminated the process, the trace ends with the
\* violating effect event followed by the only lifecycle stop event, whose
\* exit_code is 1 (no append failed).
EnforcerExited == enforce /\ phase = "exited" /\ lastCall.host = "exit"
C38_EnforcerExitTrace ==
  (EnforcerExited /\ ~appendFailed) =>
    LET n == Len(file)
    IN /\ n >= 2
       /\ Blocked(file[n - 1]) /\ file[n - 1].op = lastCall.op
       /\ IsLifecycle(file[n], "stop") /\ file[n].code = 1
       /\ Len(Lifecycle(file, "stop")) = 1

\* C39: the exit_code of the lifecycle stop event is the code the process
\* terminated with, however the run ended.
C39_StopCarriesExitCode ==
  phase = "exited" =>
    \A e \in Range(emitted) : IsLifecycle(e, "stop") => e.code = exitCode

\* C35: once close() has returned, every event passed to write() on the
\* open writer is in the trace file or counted in total_dropped.
C35_WrittenOrCounted ==
  closed => totalEvents = Len(file) + totalDropped

\* C36: of any two events in the trace the one emitted earlier (ids are
\* given in emission order) is on the earlier line, tool_call events of
\* the adapter included, and no event precedes the lifecycle start (no
\* append failed).
C36_TraceInEmissionOrder ==
  ~appendFailed =>
    /\ \A i, j \in 1..Len(file) : i < j => file[i].id < file[j].id
    /\ Len(file) > 0 => IsLifecycle(file[1], "start")

\* the path the self-I/O filter is given for p
resolvedOf(p, exists) == resolvePathBestEffort(p, exists, linked).resolvedAbs
Outside(p, exists) ==
  /\ ~isSubpath(resolvedOf(p, exists), AgentciOrig)
  /\ ~isSubpath(resolvedOf(p, exists), AgentciReal)

\* C37: a successful rename whose destination resolves outside
\* <workspace>/.agentci, the sibling <workspace>/.agentci-data/x included,
\* is not exempted by the self-I/O filter: the fs_write of the destination
\* is emitted.
C37_OutsideNeverExempt ==
  (lastCall.rename # Null /\ lastCall.orig = "ok" /\ Outside(lastCall.rename.new, TRUE))
    => \E i \in 1..Len(EventsOf(lastCall.op)) :
         Shape(EventsOf(lastCall.op))[i] = <<"fs_write", lastCall.rename.new>>

\* the verify command: the key is what loadSecret returns now
VerifiedByCommand ==
  /\ cli.stage = "verified"
  /\ cli.verifyKey = loadSecret(cli.secretFile, cli.verifyRun)
LegacyKeyed ==
  /\ cli.checksum.state = "json"
  /\ cli.how \in {"none", "summarize"}
  /\ cli.keyed = legacyKey(cli.checksum.run_id)

\* C40: an unmodified trace whose checksum was written under the legacy
\* key still verifies as valid after init created a project secret.
C40_LegacyChecksumSurvivesInit ==
  (VerifiedByCommand /\ LegacyKeyed /\ cli.inited /\ Unchanged
     /\ cli.checksum.run_id = cli.verifyRun)
    => (~cli.result.threw /\ cli.result.valid)

====
